---- MODULE Spec2Model ----
(***************************************************************************)
(* A model of the scoring and team-selection engine of hbr_advisor         *)
(* (recommender.py, class BattleAdvisor).                                  *)
(*                                                                         *)
(* Text is a sequence of one-character strings.  Numbers that are floats   *)
(* in the program are fixed-point integers in thousandths ("milli"):       *)
(* 1.0 is 1000, and a product is rounded down to a thousandth.             *)
(***************************************************************************)
EXTENDS Integers, Sequences, FiniteSets, TLC

----------------------------------------------------------------------------
(* Bounds of the model.                                                    *)

\* the longest list of owned queries and of wanted queries together
MaxQueries == 2
\* the largest team_size a call is given
MaxTeamSize == 3

----------------------------------------------------------------------------
(* Arithmetic on thousandths.                                              *)

Max2(a, b) == IF a >= b THEN a ELSE b
Min2(a, b) == IF a <= b THEN a ELSE b

\* a * b for two floats held in thousandths
Mul(a, b) == (a * b) \div 1000

RECURSIVE SeqSum(_)
SeqSum(s) == IF s = << >> THEN 0 ELSE Head(s) + SeqSum(Tail(s))

SetMax(S) == CHOOSE x \in S : \A y \in S : y <= x

Range(s) == { s[i] : i \in 1..Len(s) }

----------------------------------------------------------------------------
(* Text: str methods used by the resolver.                                 *)

\* q in s
IsSubstring(q, s) ==
    \E i \in 0..(Len(s) - Len(q)) : SubSeq(s, i + 1, i + Len(q)) = q

\* s.startswith(q)
StartsWith(s, q) == Len(q) <= Len(s) /\ SubSeq(s, 1, Len(q)) = q

LowerChar(c) ==
    CASE c = "A" -> "a"
      [] c = "B" -> "b"
      [] c = "C" -> "c"
      [] c = "D" -> "d"
      [] OTHER -> c

\* s.lower()
Lower(s) == [i \in 1..Len(s) |-> LowerChar(s[i])]

RECURSIVE LStrip(_)
LStrip(s) == IF s # << >> /\ Head(s) = " " THEN LStrip(Tail(s)) ELSE s

RECURSIVE RStrip(_)
RStrip(s) ==
    IF s # << >> /\ s[Len(s)] = " " THEN RStrip(SubSeq(s, 1, Len(s) - 1)) ELSE s

\* s.strip()
Strip(s) == RStrip(LStrip(s))

\* the code point order of the characters of the model
Ord(c) ==
    CASE c = " " -> 32
      [] c = "A" -> 65
      [] c = "B" -> 66
      [] c = "C" -> 67
      [] c = "D" -> 68
      [] c = "G" -> 71
      [] c = "H" -> 72
      [] c = "a" -> 97
      [] c = "b" -> 98
      [] c = "c" -> 99
      [] c = "d" -> 100
      [] OTHER -> 122

\* a < b for two str values
RECURSIVE StrLess(_, _)
StrLess(a, b) ==
    IF b = << >> THEN FALSE
    ELSE IF a = << >> THEN TRUE
    ELSE IF Head(a) = Head(b) THEN StrLess(Tail(a), Tail(b))
    ELSE Ord(Head(a)) < Ord(Head(b))

----------------------------------------------------------------------------
(* difflib: SequenceMatcher.ratio and get_close_matches(n=1, cutoff=0.5).  *)

\* the matching blocks a[i..i+k-1] = b[j..j+k-1]
MatchBlocks(a, b) ==
    { blk \in [i : 1..Len(a), j : 1..Len(b), k : 1..Min2(Len(a), Len(b))] :
        /\ blk.i + blk.k - 1 <= Len(a)
        /\ blk.j + blk.k - 1 <= Len(b)
        /\ SubSeq(a, blk.i, blk.i + blk.k - 1) = SubSeq(b, blk.j, blk.j + blk.k - 1) }

\* find_longest_match: the longest block, the earliest in a, then in b
LongestMatch(a, b) ==
    CHOOSE blk \in MatchBlocks(a, b) :
        \A o \in MatchBlocks(a, b) :
            \/ blk.k > o.k
            \/ blk.k = o.k /\ blk.i < o.i
            \/ blk.k = o.k /\ blk.i = o.i /\ blk.j <= o.j

\* the number of matched characters (the sum of get_matching_blocks sizes)
RECURSIVE Matches(_, _)
Matches(a, b) ==
    IF a = << >> \/ b = << >> \/ MatchBlocks(a, b) = {} THEN 0
    ELSE LET blk == LongestMatch(a, b)
         IN  blk.k
             + Matches(SubSeq(a, 1, blk.i - 1), SubSeq(b, 1, blk.j - 1))
             + Matches(SubSeq(a, blk.i + blk.k, Len(a)),
                       SubSeq(b, blk.j + blk.k, Len(b)))

\* ratio() >= 0.5, with ratio = 2.0 * matches / (len(a) + len(b))
CloseEnough(name, word) ==
    4 * Matches(name, word) >= Len(name) + Len(word)

\* (ratio(x), x) < (ratio(y), y), the order heapq.nlargest uses
FuzzyLess(x, y, word) ==
    LET rx == Matches(x, word) * (Len(y) + Len(word))
        ry == Matches(y, word) * (Len(x) + Len(word))
    IN  rx < ry \/ (rx = ry /\ StrLess(x, y))

\* difflib.get_close_matches(word, names, n=1, cutoff=0.5): a list of at most
\* one name
GetCloseMatches(word, names) ==
    LET close == { x \in Range(names) : CloseEnough(x, word) }
    IN  IF close = {} THEN << >>
        ELSE << CHOOSE x \in close :
                   \A y \in close : y = x \/ FuzzyLess(y, x, word) >>

----------------------------------------------------------------------------
(* Optional values: None is the empty sequence, a value x is <<x>>.        *)

None == << >>
Some(x) == <<x>>

----------------------------------------------------------------------------
(* Free text with keywords (Skill.notes, Style.passive_*, debuff traits).  *)
(* A text is the set kw of the marker words that occur in it and the set   *)
(* pct of the numbers N of its "N%" tokens.  The words stand for:          *)
(*   BUFF バフ  FIELD フィールド  CHARGE チャージ  MORALE 士気               *)
(*   CRITICAL クリティカル  SKILL_ATK スキル攻撃力  TOKEN トークン  OD  SP   *)
(*   DEF_DOWN 防御ダウン  VULNERABLE 脆弱  RESIST 耐性  DEBUFF デバフ        *)
(*   DMG_TAKEN 被ダメ  WEAKEN 弱体  SEAL 封印                               *)
(*   VS_HP_DMG 対HPダメージ  VS_DP_DMG 対DPダメージ  COMBO 連撃              *)
(*   DESTRUCTION_RATE 破壊率  PENETRATE 貫通  HEAL 回復                     *)

SUPPORT_KEYWORDS ==
    <<"BUFF", "FIELD", "CHARGE", "MORALE", "CRITICAL", "SKILL_ATK", "TOKEN", "OD", "SP">>
DEBUFF_KEYWORDS ==
    <<"DEF_DOWN", "VULNERABLE", "RESIST", "DEBUFF", "DMG_TAKEN", "WEAKEN", "SEAL">>
ATTACK_KEYWORDS ==
    <<"VS_HP_DMG", "VS_DP_DMG", "COMBO", "DESTRUCTION_RATE", "PENETRATE">>

\* k in word, for a keyword k and a word of a text: デバフ contains バフ,
\* 対DPダメージ contains DP, 耐性 contains 耐
WordHas(word, k) ==
    \/ word = k
    \/ word = "DEBUFF" /\ k = "BUFF"
    \/ word = "VS_DP_DMG" /\ k = "DP"
    \/ word = "RESIST" /\ k = "RESIST_MARK"

\* k in text
TextHas(text, k) == \E word \in text.kw : WordHas(word, k)

Text(kw, pct) == [kw |-> kw, pct |-> pct]
EmptyText == Text({}, {})

\* the number of keywords of the list that occur in the text
KeywordCount(keywords, text) ==
    Cardinality({ i \in 1..Len(keywords) : TextHas(text, keywords[i]) })

----------------------------------------------------------------------------
(* The data set the advisor is constructed from.                           *)

Style(name, alias, character, rarity, atk, crit, rate, destr, passive) ==
    [ style_name |-> name, alias |-> alias, character |-> character,
      style_raw |-> name, rarity |-> rarity,
      attack_bonus_no_lb |-> atk[1], attack_bonus_lb3 |-> atk[2],
      crit_damage_no_lb |-> crit[1], crit_damage_lb3 |-> crit[2],
      crit_rate_no_lb |-> rate[1], crit_rate_lb3 |-> rate[2],
      destruction_no_lb |-> destr[1], destruction_lb3 |-> destr[2],
      passive_no_lb |-> passive, passive_lb3 |-> EmptyText ]

Skill(name, weapon, element, hint, owner, multiplier, notes) ==
    [ skill_name |-> name, weapon |-> weapon, element |-> element,
      owner_style_hint |-> hint, owner_character |-> owner,
      multiplier |-> multiplier, notes |-> notes ]

Styles ==
    << Style(<<"A","a">>, <<"p">>, <<"R">>, "SS", <<100, 200>>, <<0, 100>>,
             <<0, 0>>, <<0, 0>>, EmptyText),
       Style(<<"A","b">>, <<"q">>, <<"R">>, "S", <<0, 0>>, <<0, 0>>,
             <<0, 0>>, <<0, 0>>, Text({"BUFF"}, {})),
       Style(<<"B","a">>, <<"r">>, <<"Y">>, "A", <<0, 0>>, <<0, 0>>,
             <<100, 0>>, <<100, 50>>, EmptyText),
       Style(<<"B","b">>, <<"s">>, <<"T">>, "S", <<0, 0>>, <<200, 0>>,
             <<0, 0>>, <<0, 0>>, EmptyText),
       Style(<<"C","a">>, << >>, <<"M">>, "ss", <<0, 0>>, <<0, 0>>,
             <<0, 0>>, <<0, 0>>, Text({"SEAL"}, {})),
       Style(<<"D","a">>, << >>, <<"N">>, "A", <<0, 0>>, <<0, 0>>,
             <<0, 0>>, <<0, 0>>, Text({"SEAL"}, {})) >>

Skills ==
    << Skill(<<"k","1">>, "slash", "fire", <<"A","a">>, <<"R">>, 3000,
             Text({"VS_HP_DMG"}, {30})),
       Skill(<<"k","2">>, "stab", "ice", <<"A","a">>, <<"R">>, 2500,
             Text({"VS_DP_DMG"}, {20, 50})),
       Skill(<<"k","3">>, "slash", "none", <<"S","q">>, <<"R">>, 0,
             Text({"BUFF"}, {})),
       Skill(<<"k","4">>, "strike", "fire", << >>, <<"Y">>, 1000,
             Text({"DEF_DOWN", "DEBUFF"}, {})),
       Skill(<<"k","5">>, "slash", "fire", <<"B","b">>, <<"T">>, 4000,
             Text({"CHARGE", "VULNERABLE"}, {})),
       Skill(<<"k","6">>, "stab", "ice", <<"B","b">>, <<"T">>, 1000,
             Text({"HEAL"}, {})) >>

Enemies ==
    << [ name |-> <<"G","a">>, dp |-> 5000,
         weapon_mult |-> [w \in {"slash", "stab", "strike"} |->
                             CASE w = "slash" -> 1500
                               [] w = "stab" -> 3000
                               [] OTHER -> 0],
         element_mult |-> [e \in {"fire"} |-> 2000] ],
       [ name |-> <<"H","a","b">>, dp |-> 0,
         weapon_mult |-> [w \in {"slash"} |-> 800],
         element_mult |-> [e \in {"ice"} |-> 1000] ] >>

\* a knowledge row that is a dict, and one that is not
Row(skill_name, key, value) ==
    [ is_dict |-> TRUE, skill_name |-> skill_name, key |-> key, value |-> value ]
Number(v) == [parses |-> TRUE, v |-> v]

\* a knowledge table that is a list of rows, and one that is not
Table(rows) == [is_list |-> TRUE, rows |-> rows]
NotAList == [is_list |-> FALSE, rows |-> << >>]

Knowledge ==
    [ t \in {"skill_attack_buffs", "penetration_skills", "debuff_traits",
             "charge_buffs"} |->
        CASE t = "skill_attack_buffs" ->
                Table(<< Row(<<"k","3">>, "max_value", Number(30000)),
                         Row(<<" ","k","5">>, "max_value", Number(500)) >>)
          [] t = "penetration_skills" ->
                Table(<< Row(<<"k","1">>, "value", Number(20000)) >>)
          [] t = "debuff_traits" ->
                Table(<< [ is_dict |-> TRUE, skill_name |-> <<"k","4">>,
                           effect_type |-> Text({"DEF_DOWN"}, {}),
                           resistance |-> Text({"RESIST"}, {}) ] >>)
          [] t = "charge_buffs" -> NotAList ]

----------------------------------------------------------------------------
(* BattleAdvisor.__init__ and the knowledge maps.                          *)

EmptyMap == [k \in {} |-> 0]

\* m[k] = v for a dict m
Put(m, k, v) == [x \in DOMAIN m \cup {k} |-> IF x = k THEN v ELSE m[x]]

\* m.get(k, default)
Get(m, k, default) == IF k \in DOMAIN m THEN m[k] ELSE default

\* a value kept as it is, percentage or not
NotPercentized(value) == value

\* _percentize: a value above 2.0 is a percentage
Percentize(value) == IF value > 2000 THEN value \div 100 ELSE value

\* float(row.get(value_key, 0.0) or 0.0), 0.0 when it does not parse
RawValue(row, value_key) ==
    IF row.key = value_key /\ row.value.parses THEN row.value.v ELSE 0

RECURSIVE SkillValueRows(_, _, _)
SkillValueRows(rows, value_key, out) ==
    IF rows = << >> THEN out
    ELSE LET row == Head(rows)
             skill_name == IF row.is_dict THEN Strip(row.skill_name) ELSE << >>
         IN  IF ~row.is_dict \/ skill_name = << >>
             THEN SkillValueRows(Tail(rows), value_key, out)
             ELSE SkillValueRows(Tail(rows), value_key,
                      Put(out, skill_name, Percentize(RawValue(row, value_key))))

\* _build_skill_value_map
BuildSkillValueMap(knowledge, key, value_key) ==
    LET table == Get(knowledge, key, Table(<< >>))
    IN  IF ~table.is_list THEN EmptyMap
        ELSE SkillValueRows(table.rows, value_key, EmptyMap)

\* f"{effect} {resistance}".strip()
JoinText(a, b) == Text(a.kw \cup b.kw, a.pct \cup b.pct)

RECURSIVE DebuffTraitRows(_, _)
DebuffTraitRows(rows, out) ==
    IF rows = << >> THEN out
    ELSE LET row == Head(rows)
             skill_name == IF row.is_dict THEN Strip(row.skill_name) ELSE << >>
         IN  IF ~row.is_dict \/ skill_name = << >>
             THEN DebuffTraitRows(Tail(rows), out)
             ELSE DebuffTraitRows(Tail(rows),
                      Put(out, skill_name, JoinText(row.effect_type, row.resistance)))

\* _build_debuff_trait_map
BuildDebuffTraitMap(knowledge) ==
    LET table == Get(knowledge, "debuff_traits", Table(<< >>))
    IN  IF ~table.is_list THEN EmptyMap ELSE DebuffTraitRows(table.rows, EmptyMap)

\* the skills of the list, in order, under each value of the field
GroupBy(skills, keys, field) ==
    [k \in keys |-> SelectSeq(skills, LAMBDA sk : sk[field] = k)]

\* BattleAdvisor.__init__
BattleAdvisor(styles, skills, enemies, knowledge) ==
    [ styles |-> styles,
      skills |-> skills,
      enemies |-> enemies,
      knowledge |-> knowledge,
      style_by_name |->
          [n \in { styles[i].style_name : i \in 1..Len(styles) } |->
              styles[SetMax({ i \in 1..Len(styles) : styles[i].style_name = n })]],
      skill_attack_buff_map |-> BuildSkillValueMap(knowledge, "skill_attack_buffs", "max_value"),
      element_attack_buff_map |-> BuildSkillValueMap(knowledge, "element_attack_buffs", "max_value"),
      charge_buff_map |-> BuildSkillValueMap(knowledge, "charge_buffs", "max_value"),
      crit_damage_buff_map |-> BuildSkillValueMap(knowledge, "crit_damage_buffs", "value"),
      crit_rate_buff_map |-> BuildSkillValueMap(knowledge, "crit_rate_buffs", "max_value"),
      field_buff_map |-> BuildSkillValueMap(knowledge, "field_buffs", "value"),
      mind_eye_map |-> BuildSkillValueMap(knowledge, "mind_eye_buffs", "max_value"),
      penetration_map |-> BuildSkillValueMap(knowledge, "penetration_skills", "value"),
      debuff_trait_map |-> BuildDebuffTraitMap(knowledge),
      skills_by_character |->
          GroupBy(skills, { skills[i].owner_character : i \in 1..Len(skills) },
                  "owner_character"),
      skills_by_style_hint |->
          GroupBy(skills, { skills[i].owner_style_hint : i \in 1..Len(skills) } \ {<< >>},
                  "owner_style_hint") ]

----------------------------------------------------------------------------
(* utils.rarity_score and the effective bonuses of a Style.                *)

\* rarity_score: (rarity or "").upper() is SS, S, A or something else
rarity_score(rarity) ==
    IF rarity \in {"SS", "ss", "Ss", "sS"} THEN 1200
    ELSE IF rarity \in {"S", "s"} THEN 1000
    ELSE IF rarity \in {"A", "a"} THEN 850
    ELSE 1000

attack_bonus(style) == Max2(style.attack_bonus_no_lb, style.attack_bonus_lb3)
crit_damage_bonus(style) == Max2(style.crit_damage_no_lb, style.crit_damage_lb3)
crit_rate_bonus(style) == Max2(style.crit_rate_no_lb, style.crit_rate_lb3)
destruction_bonus(style) == Max2(style.destruction_no_lb, style.destruction_lb3)

----------------------------------------------------------------------------
(* resolve_style_queries.                                                  *)

\* list(self.style_by_name.keys()): the names in the order of the styles
AllNames(self) ==
    LET idx == { i \in 1..Len(self.styles) :
                   \A j \in 1..(i - 1) :
                       self.styles[j].style_name # self.styles[i].style_name }
    IN  [n \in 1..Cardinality(idx) |->
            self.styles[CHOOSE i \in idx :
                Cardinality({ j \in idx : j < i }) = n - 1].style_name]

\* lower_map: a later name replaces an earlier one with the same lower()
LowerMap(all_names) ==
    [l \in { Lower(all_names[i]) : i \in 1..Len(all_names) } |->
        all_names[SetMax({ i \in 1..Len(all_names) : Lower(all_names[i]) = l })]]

\* the styles a query is a substring of
SubstringCandidates(self, q) ==
    SelectSeq(self.styles,
        LAMBDA s : \/ IsSubstring(q, s.style_name)
                   \/ IsSubstring(q, s.character)
                   \/ IsSubstring(q, s.alias)
                   \/ IsSubstring(q, s.style_raw))

\* the sort key of a substring candidate, and the order of two keys
CandidateKey(s, q) ==
    << IF StartsWith(s.style_name, q) THEN 0 ELSE 1,
       0 - rarity_score(s.rarity),
       Len(s.style_name) >>

KeyLess(a, b) ==
    \/ a[1] < b[1]
    \/ a[1] = b[1] /\ a[2] < b[2]
    \/ a[1] = b[1] /\ a[2] = b[2] /\ a[3] < b[3]

\* candidates.sort(key=...)[0]: list.sort is stable, so the first of the
\* candidates with the least key
BestCandidate(candidates, q) ==
    candidates[CHOOSE i \in 1..Len(candidates) :
        /\ \A j \in 1..Len(candidates) :
               ~KeyLess(CandidateKey(candidates[j], q), CandidateKey(candidates[i], q))
        /\ \A j \in 1..(i - 1) :
               KeyLess(CandidateKey(candidates[i], q), CandidateKey(candidates[j], q))]

\* the tiers with the substring match tried first
SubstringFirst(self, q) ==
    IF SubstringCandidates(self, q) # << >> THEN "substring"
    ELSE IF q \in DOMAIN self.style_by_name THEN "exact"
    ELSE IF Lower(q) \in DOMAIN LowerMap(AllNames(self)) THEN "lower"
    ELSE IF GetCloseMatches(q, AllNames(self)) # << >> THEN "fuzzy"
    ELSE "none"

\* the tier that resolves a stripped, non-empty query
MatchTier(self, q) ==
    IF q \in DOMAIN self.style_by_name THEN "exact"
    ELSE IF Lower(q) \in DOMAIN LowerMap(AllNames(self)) THEN "lower"
    ELSE IF SubstringCandidates(self, q) # << >> THEN "substring"
    ELSE IF GetCloseMatches(q, AllNames(self)) # << >> THEN "fuzzy"
    ELSE "none"

\* the style a stripped, non-empty query resolves to in its tier
ResolveInTier(self, q, tier) ==
    CASE tier = "exact" -> Some(self.style_by_name[q])
      [] tier = "lower" ->
            Some(self.style_by_name[LowerMap(AllNames(self))[Lower(q)]])
      [] tier = "substring" -> Some(BestCandidate(SubstringCandidates(self, q), q))
      [] tier = "fuzzy" ->
            Some(self.style_by_name[GetCloseMatches(q, AllNames(self))[1]])
      [] OTHER -> None

\* the style a stripped, non-empty query resolves to, if any
ResolveQuery(self, q) == ResolveInTier(self, q, MatchTier(self, q))

\* the loop over the queries: the styles appended to resolved
RECURSIVE ResolvedList(_, _)
ResolvedList(self, queries) ==
    IF queries = << >> THEN << >>
    ELSE LET q == Strip(Head(queries))
         IN  IF q = << >> THEN ResolvedList(self, Tail(queries))
             ELSE ResolveQuery(self, q) \o ResolvedList(self, Tail(queries))

\* the loop over the queries: the queries appended to unresolved
RECURSIVE UnresolvedList(_, _)
UnresolvedList(self, queries) ==
    IF queries = << >> THEN << >>
    ELSE LET q == Strip(Head(queries))
         IN  IF q # << >> /\ ResolveQuery(self, q) = None
             THEN <<q>> \o UnresolvedList(self, Tail(queries))
             ELSE UnresolvedList(self, Tail(queries))

\* the resolved styles without the de-dup
KeepAll(resolved, seen) == resolved

\* de-dup while preserving order
RECURSIVE DedupByName(_, _)
DedupByName(resolved, seen) ==
    IF resolved = << >> THEN << >>
    ELSE IF Head(resolved).style_name \in seen THEN DedupByName(Tail(resolved), seen)
    ELSE <<Head(resolved)>>
         \o DedupByName(Tail(resolved), seen \cup {Head(resolved).style_name})

\* resolve_style_queries: (uniq, unresolved)
resolve_style_queries(self, queries) ==
    [ uniq |-> DedupByName(ResolvedList(self, queries), {}),
      unresolved |-> UnresolvedList(self, queries) ]

----------------------------------------------------------------------------
(* Scoring of skills and styles.                                           *)

\* the dict after m[k] for a defaultdict(list): a missing key is inserted
AfterSubscript(m, k) == IF k \in DOMAIN m THEN m ELSE Put(m, k, << >>)

\* the dict after m.get(k, []): a read leaves it as it is
AfterGet(m, k) == m

\* the character's skills whose owner_style_hint contains the alias
AliasCandidates(style, of_character) ==
    SelectSeq(of_character,
        LAMBDA sk : style.alias # << >> /\ IsSubstring(style.alias, sk.owner_style_hint))

\* the choice of _skills_for_style among the three lists
FirstNonEmpty(style_skills, candidates, of_character) ==
    IF style_skills # << >> THEN style_skills
    ELSE IF candidates # << >> THEN candidates
    ELSE of_character

\* _skills_for_style
skills_for_style(self, style) ==
    FirstNonEmpty(Get(self.skills_by_style_hint, style.style_name, << >>),
                  AliasCandidates(style, Get(self.skills_by_character, style.character, << >>)),
                  Get(self.skills_by_character, style.character, << >>))

\* factor *= mult[key], without the floor at 0.05
TimesRawMult(factor, mult, key) ==
    IF key \in DOMAIN mult THEN Mul(factor, mult[key]) ELSE factor

\* factor *= max(0.05, mult[key]) when the enemy has a multiplier for the key
TimesEnemyMult(factor, mult, key) ==
    IF key \in DOMAIN mult THEN Mul(factor, Max2(50, mult[key])) ELSE factor

\* the enemy's part of _weakness_factor
EnemyFactor(skill, enemy) ==
    IF enemy = None THEN 1000
    ELSE TimesEnemyMult(TimesEnemyMult(1000, enemy[1].weapon_mult, skill.weapon),
                        enemy[1].element_mult, skill.element)

\* factor *= times when the preference is given and the skill has it
TimesPreferred(factor, preferred, have, times) ==
    IF preferred # "" /\ have = preferred THEN Mul(factor, times) ELSE factor

\* _weakness_factor; enemy is None or Some(enemy), a preference may be ""
weakness_factor(skill, enemy, preferred_weapon, preferred_element) ==
    TimesPreferred(
        TimesPreferred(EnemyFactor(skill, enemy), preferred_weapon, skill.weapon, 1150),
        preferred_element, skill.element, 1200)

\* max(extract_percent_values(notes)) when the notes have the marker and a
\* percentage, else 0.0
PercentBonus(notes, marker) ==
    IF TextHas(notes, marker) /\ notes.pct # {} THEN SetMax(notes.pct) * 10 ELSE 0

\* 1.0 + attack_keyword_bonus + penetration_bonus + mind_eye_bonus
CommonBonus(self, skill) ==
    1000 + 70 * KeywordCount(ATTACK_KEYWORDS, skill.notes)
         + Mul(Get(self.penetration_map, skill.skill_name, 0), 650)
         + Mul(Get(self.mind_eye_map, skill.skill_name, 0), 400)

\* (overall, hp_score, dp_score, weakness) from the parts of the score
AttackScores(base, common, hp_bonus, dp_bonus, weakness) ==
    [ overall |-> Max2(Mul(Mul(base, common + hp_bonus), weakness),
                       Mul(Mul(base, common + dp_bonus), weakness)),
      hp_score |-> Mul(Mul(base, common + hp_bonus), weakness),
      dp_score |-> Mul(Mul(base, common + dp_bonus), weakness),
      weakness |-> weakness ]

\* _attack_skill_score
attack_skill_score(self, skill, enemy, preferred_weapon, preferred_element) ==
    AttackScores(Max2(100, skill.multiplier),
                 CommonBonus(self, skill),
                 PercentBonus(skill.notes, "VS_HP_DMG"),
                 PercentBonus(skill.notes, "VS_DP_DMG"),
                 weakness_factor(skill, enemy, preferred_weapon, preferred_element))

\* _support_skill_score
support_skill_score(self, skill) ==
    1000 * KeywordCount(SUPPORT_KEYWORDS, skill.notes)
    + (IF TextHas(skill.notes, "HEAL") THEN 400 ELSE 0)
    + Mul(Get(self.skill_attack_buff_map, skill.skill_name, 0), 10000)
    + Mul(Get(self.element_attack_buff_map, skill.skill_name, 0), 10000)
    + Mul(Get(self.charge_buff_map, skill.skill_name, 0), 9000)
    + Mul(Get(self.crit_damage_buff_map, skill.skill_name, 0), 7000)
    + Mul(Get(self.crit_rate_buff_map, skill.skill_name, 0), 7000)
    + Mul(Get(self.field_buff_map, skill.skill_name, 0), 8000)

\* the part of _debuff_skill_score that the debuff trait of the skill gives
HintScore(debuff_hint) ==
    IF debuff_hint = EmptyText THEN 0
    ELSE 2000
         + (IF TextHas(debuff_hint, "VULNERABLE") THEN 700 ELSE 0)
         + (IF TextHas(debuff_hint, "DP") \/ TextHas(debuff_hint, "RESIST_MARK")
            THEN 500 ELSE 0)

\* _debuff_skill_score
debuff_skill_score(self, skill) ==
    1000 * KeywordCount(DEBUFF_KEYWORDS, skill.notes)
    + HintScore(Get(self.debuff_trait_map, skill.skill_name, EmptyText))
    + (IF TextHas(skill.notes, "DEF_DOWN") THEN 1000 ELSE 0)
    + (IF TextHas(skill.notes, "VULNERABLE") THEN 1000 ELSE 0)

\* the bests before the loop of score_style
NoBest ==
    [ best_attack_any |-> None, best_attack_any_score |-> 0,
      best_hp_skill |-> None, best_hp_score |-> 0,
      best_dp_skill |-> None, best_dp_score |-> 0,
      best_weakness |-> 1000,
      best_support |-> None, best_support_score |-> 0,
      best_debuff |-> None, best_debuff_score |-> 0 ]

\* one iteration of the loop of score_style, for the scores of the skill
BestWith(best, sk, atk, sup_score, deb_score) ==
    [ best_attack_any |->
          IF atk.overall > best.best_attack_any_score THEN Some(sk)
          ELSE best.best_attack_any,
      best_attack_any_score |->
          IF atk.overall > best.best_attack_any_score THEN atk.overall
          ELSE best.best_attack_any_score,
      best_weakness |->
          IF atk.overall > best.best_attack_any_score THEN atk.weakness
          ELSE best.best_weakness,
      best_hp_skill |->
          IF atk.hp_score > best.best_hp_score THEN Some(sk) ELSE best.best_hp_skill,
      best_hp_score |->
          IF atk.hp_score > best.best_hp_score THEN atk.hp_score ELSE best.best_hp_score,
      best_dp_skill |->
          IF atk.dp_score > best.best_dp_score THEN Some(sk) ELSE best.best_dp_skill,
      best_dp_score |->
          IF atk.dp_score > best.best_dp_score THEN atk.dp_score ELSE best.best_dp_score,
      best_support |->
          IF sup_score > best.best_support_score THEN Some(sk) ELSE best.best_support,
      best_support_score |->
          IF sup_score > best.best_support_score THEN sup_score
          ELSE best.best_support_score,
      best_debuff |->
          IF deb_score > best.best_debuff_score THEN Some(sk) ELSE best.best_debuff,
      best_debuff_score |->
          IF deb_score > best.best_debuff_score THEN deb_score
          ELSE best.best_debuff_score ]

\* one iteration of the loop of score_style
BestAfter(self, best, sk, enemy, preferred_weapon, preferred_element) ==
    BestWith(best, sk,
             attack_skill_score(self, sk, enemy, preferred_weapon, preferred_element),
             support_skill_score(self, sk),
             debuff_skill_score(self, sk))

\* the loop of score_style over the skills of the style
RECURSIVE BestSkills(_, _, _, _, _, _)
BestSkills(self, best, skills, enemy, preferred_weapon, preferred_element) ==
    IF skills = << >> THEN best
    ELSE BestSkills(self,
             BestAfter(self, best, Head(skills), enemy, preferred_weapon, preferred_element),
             Tail(skills), enemy, preferred_weapon, preferred_element)

\* the phases split for every enemy, whatever its dp
HasEnemy(enemy) == enemy # None

\* use_hp_phase / phase_has_dp: bool(enemy is not None and enemy.dp > 0)
HasDp(enemy) == enemy # None /\ enemy[1].dp > 0

\* the name of the skill is a key of one of the six buff maps
InBuffMaps(self, skill_name) ==
    \/ skill_name \in DOMAIN self.skill_attack_buff_map
    \/ skill_name \in DOMAIN self.element_attack_buff_map
    \/ skill_name \in DOMAIN self.charge_buff_map
    \/ skill_name \in DOMAIN self.field_buff_map
    \/ skill_name \in DOMAIN self.crit_damage_buff_map
    \/ skill_name \in DOMAIN self.crit_rate_buff_map

\* the last rule without its debuffer branch
RoleBySupport(role_cutoff, support_score, debuff_score) ==
    IF support_score >= role_cutoff THEN "buffer" ELSE "attacker"

\* the last rule of the role classification, with its cutoff
RoleByCutoff(role_cutoff, support_score, debuff_score) ==
    IF debuff_score >= role_cutoff /\ debuff_score >= support_score THEN "debuffer"
    ELSE IF support_score >= role_cutoff THEN "buffer"
    ELSE "attacker"

\* the role classification with the debuff rule tried before the buff rule
DebufferFirst(self, best_support, best_debuff, attack_score, support_score, debuff_score) ==
    IF /\ best_debuff # None
       /\ \/ best_debuff[1].skill_name \in DOMAIN self.debuff_trait_map
          \/ TextHas(best_debuff[1].notes, "DEF_DOWN")
          \/ TextHas(best_debuff[1].notes, "VULNERABLE")
    THEN "debuffer"
    ELSE IF best_support # None /\ InBuffMaps(self, best_support[1].skill_name)
    THEN "buffer"
    ELSE RoleByCutoff(Max2(1600, Mul(attack_score, 120)), support_score, debuff_score)

\* the role classification of score_style
ClassifyRole(self, best_support, best_debuff, attack_score, support_score, debuff_score) ==
    IF best_support # None /\ InBuffMaps(self, best_support[1].skill_name)
    THEN "buffer"
    ELSE IF /\ best_debuff # None
            /\ \/ best_debuff[1].skill_name \in DOMAIN self.debuff_trait_map
               \/ TextHas(best_debuff[1].notes, "DEF_DOWN")
               \/ TextHas(best_debuff[1].notes, "VULNERABLE")
    THEN "debuffer"
    ELSE RoleByCutoff(Max2(1600, Mul(attack_score, 120)), support_score, debuff_score)

\* stat_boost
StatBoost(style) ==
    attack_bonus(style)
    + Mul(crit_damage_bonus(style), 350)
    + Mul(crit_rate_bonus(style), 250)
    + Mul(destruction_bonus(style), 200)

\* if attack_core <= 0.0: attack_core = best_attack_any_score
PositiveOr(attack_core, best_attack_any_score) ==
    IF attack_core <= 0 THEN best_attack_any_score ELSE attack_core

\* attack_core taken from the best overall score whatever the phase
OverallCore(best, use_hp_phase) == best.best_attack_any_score

\* attack_core
AttackCore(best, use_hp_phase) ==
    PositiveOr(IF use_hp_phase THEN best.best_hp_score ELSE best.best_attack_any_score,
               best.best_attack_any_score)

\* f"{style.passive_no_lb} {style.passive_lb3}" has one of the keywords
PassiveHas(style, keywords) ==
    KeywordCount(keywords, JoinText(style.passive_no_lb, style.passive_lb3)) > 0

\* the StyleScore with a weakness_factor of 1.0 whatever the skills
ScoreOfNoWeakness(self, style, best, use_hp_phase, attack_score, support_score, debuff_score) ==
    [ style |-> style,
      role |-> ClassifyRole(self, best.best_support, best.best_debuff,
                            attack_score, support_score, debuff_score),
      total_score |-> attack_score + Mul(support_score, 700) + Mul(debuff_score, 700),
      attack_score |-> attack_score,
      support_score |-> support_score,
      debuff_score |-> debuff_score,
      breaker_skill |-> IF use_hp_phase THEN best.best_dp_skill ELSE best.best_attack_any,
      finisher_skill |-> IF use_hp_phase THEN best.best_hp_skill ELSE best.best_attack_any,
      support_skill |-> best.best_support,
      debuff_skill |-> best.best_debuff,
      weakness_factor |-> 1000 ]

\* the StyleScore of score_style, from the bests and the three scores
StyleScore(self, style, best, use_hp_phase, attack_score, support_score, debuff_score) ==
    [ style |-> style,
      role |-> ClassifyRole(self, best.best_support, best.best_debuff,
                            attack_score, support_score, debuff_score),
      total_score |-> attack_score + Mul(support_score, 700) + Mul(debuff_score, 700),
      attack_score |-> attack_score,
      support_score |-> support_score,
      debuff_score |-> debuff_score,
      breaker_skill |-> IF use_hp_phase THEN best.best_dp_skill ELSE best.best_attack_any,
      finisher_skill |-> IF use_hp_phase THEN best.best_hp_skill ELSE best.best_attack_any,
      support_skill |-> best.best_support,
      debuff_skill |-> best.best_debuff,
      weakness_factor |-> best.best_weakness ]

\* score_style after its loop
ScoreWithBest(self, style, best, use_hp_phase) ==
    StyleScore(self, style, best, use_hp_phase,
        Mul(Mul(AttackCore(best, use_hp_phase), rarity_score(style.rarity)),
            1000 + StatBoost(style)),
        Mul(best.best_support_score + Mul(attack_bonus(style), 3000),
            rarity_score(style.rarity))
        + (IF PassiveHas(style, SUPPORT_KEYWORDS) THEN 800 ELSE 0),
        Mul(best.best_debuff_score + Mul(destruction_bonus(style), 2000),
            rarity_score(style.rarity))
        + (IF PassiveHas(style, DEBUFF_KEYWORDS) THEN 800 ELSE 0))

\* score_style
score_style(self, style, enemy, preferred_weapon, preferred_element) ==
    ScoreWithBest(self, style,
        BestSkills(self, NoBest, skills_for_style(self, style),
                   enemy, preferred_weapon, preferred_element),
        HasDp(enemy))

----------------------------------------------------------------------------
(* recommend: the candidate pool, find_enemy and the scores.               *)

\* find_enemy with the first enemy for a name that matches none
FindOrFirst(self, enemy_name) ==
    LET matching == { i \in 1..Len(self.enemies) :
                        IsSubstring(enemy_name, self.enemies[i].name) }
    IN  IF enemy_name = << >> \/ self.enemies = << >> THEN None
        ELSE IF matching # {} THEN Some(self.enemies[CHOOSE i \in matching :
                                                        \A j \in matching : i <= j])
        ELSE Some(self.enemies[1])

\* find_enemy: the name may be "" (or None)
find_enemy(self, enemy_name) ==
    LET exact == { i \in 1..Len(self.enemies) : self.enemies[i].name = enemy_name }
        containing == { i \in 1..Len(self.enemies) :
                          IsSubstring(enemy_name, self.enemies[i].name) }
        first(S) == CHOOSE i \in S : \A j \in S : i <= j
    IN  IF enemy_name = << >> THEN None
        ELSE IF exact # {} THEN Some(self.enemies[first(exact)])
        ELSE IF containing # {} THEN Some(self.enemies[first(containing)])
        ELSE None

\* list({s.style_name: s for s in styles}.values()) with more styles put
\* under their names afterwards: a dict keeps the place of the first insert
\* of a key and the value of the last
RECURSIVE PutStyles(_, _)
PutStyles(pool, styles) ==
    IF styles = << >> THEN pool
    ELSE LET st == Head(styles)
             at == { i \in 1..Len(pool) : pool[i].style_name = st.style_name }
         IN  IF at = {} THEN PutStyles(Append(pool, st), Tail(styles))
             ELSE PutStyles([i \in 1..Len(pool) |-> IF i \in at THEN st ELSE pool[i]],
                            Tail(styles))

\* a pool that starts from every style, whatever the owned queries matched
RosterPool(self, matched_owned, matched_wanted) ==
    PutStyles(PutStyles(<< >>, self.styles), matched_wanted)

\* pool = list(pool_map.values())
CandidatePool(self, matched_owned, matched_wanted) ==
    PutStyles(PutStyles(<< >>, IF matched_owned # << >> THEN matched_owned ELSE self.styles),
              matched_wanted)

\* wanted_names
WantedNames(matched_wanted) ==
    { matched_wanted[i].style_name : i \in 1..Len(matched_wanted) }

\* if style.style_name in wanted_names: sc.total_score += 100.0
WithWantedBonus(sc, wanted_names) ==
    IF sc.style.style_name \in wanted_names
    THEN [sc EXCEPT !.total_score = @ + 100000]
    ELSE sc

\* the scores of the pool
PoolScores(self, pool, matched_wanted, enemy, preferred_weapon, preferred_element) ==
    [i \in 1..Len(pool) |->
        WithWantedBonus(
            score_style(self, pool[i], enemy, preferred_weapon, preferred_element),
            WantedNames(matched_wanted))]

\* score_map.get(style_name): the last score under the name, or None
ScoreMapGet(scores, style_name) ==
    LET at == { i \in 1..Len(scores) : scores[i].style.style_name = style_name }
    IN  IF at = {} THEN None ELSE Some(scores[SetMax(at)])

----------------------------------------------------------------------------
(* recommend: the selection.  A selection is the list selected and the set *)
(* used_chars.                                                             *)

NoSelection == [selected |-> << >>, used_chars |-> {}]

\* add_style returns True
CanAdd(sel, sc) == sc.style.character \notin sel.used_chars

\* add_style without the check of used_chars
AddAnyway(sel, sc) ==
    [ selected |-> Append(sel.selected, sc),
      used_chars |-> sel.used_chars \cup {sc.style.character} ]

\* add_style: the selection afterwards
add_style(sel, sc) ==
    IF sc.style.character \in sel.used_chars THEN sel
    ELSE [ selected |-> Append(sel.selected, sc),
           used_chars |-> sel.used_chars \cup {sc.style.character} ]

\* the key functions of the five sorts of recommend
SortKey(sc, key) ==
    CASE key = "attack_score" -> sc.attack_score
      [] key = "debuff_score" -> sc.debuff_score
      [] key = "support_score" -> sc.support_score
      [] key = "max_support_debuff" -> Max2(sc.support_score, sc.debuff_score)
      [] key = "total_score" -> sc.total_score

\* the place of item i in the list sorted(seq, key=..., reverse=True): the
\* sort is stable, items with equal keys keep their order
SortedPlace(seq, key, i) ==
    1 + Cardinality({ j \in 1..Len(seq) : SortKey(seq[j], key) > SortKey(seq[i], key) })
      + Cardinality({ j \in 1..(i - 1) : SortKey(seq[j], key) = SortKey(seq[i], key) })

\* the place of item i when items with equal keys come in reverse order
ReversedPlace(seq, key, i) ==
    1 + Cardinality({ j \in 1..Len(seq) : SortKey(seq[j], key) > SortKey(seq[i], key) })
      + Cardinality({ j \in (i + 1)..Len(seq) : SortKey(seq[j], key) = SortKey(seq[i], key) })

\* a sort that is not stable: items with equal keys in either order
UnstableSorted(seq, key) ==
    { [n \in 1..Len(seq) |->
          seq[CHOOSE i \in 1..Len(seq) : SortedPlace(seq, key, i) = n]],
      [n \in 1..Len(seq) |->
          seq[CHOOSE i \in 1..Len(seq) : ReversedPlace(seq, key, i) = n]] }

\* the lists sorted(seq, key=..., reverse=True) may return: exactly one
Sorted(seq, key) ==
    { [n \in 1..Len(seq) |->
          seq[CHOOSE i \in 1..Len(seq) : SortedPlace(seq, key, i) = n]] }

\* if sc: add_style(sc)
AddIfScored(sel, sc) == IF sc # None THEN add_style(sel, sc[1]) ELSE sel

\* no force-add: the selection starts empty
WantedNotAdded(sel, matched_wanted, scores) == sel

\* a force-add that stops after the first wanted style
ForceAddFirst(sel, matched_wanted, scores) ==
    IF matched_wanted = << >> THEN sel
    ELSE AddIfScored(sel, ScoreMapGet(scores, Head(matched_wanted).style_name))

\* 1) force-add wanted styles
RECURSIVE ForceAddWanted(_, _, _)
ForceAddWanted(sel, matched_wanted, scores) ==
    IF matched_wanted = << >> THEN sel
    ELSE ForceAddWanted(
             AddIfScored(sel, ScoreMapGet(scores, Head(matched_wanted).style_name)),
             Tail(matched_wanted), scores)

\* the first of the attackers that add_style accepts
FirstAddable(sel, attackers) ==
    LET ok == { i \in 1..Len(attackers) : CanAdd(sel, attackers[i]) }
    IN  IF ok = {} THEN None
        ELSE Some(attackers[CHOOSE i \in ok : \A j \in ok : i <= j])

\* max(selected, key=attack_score): the first of the greatest
MaxByAttack(selected) ==
    selected[CHOOSE i \in 1..Len(selected) :
        /\ \A j \in 1..Len(selected) : selected[j].attack_score <= selected[i].attack_score
        /\ \A j \in 1..(i - 1) : selected[j].attack_score < selected[i].attack_score]

\* the main attacker without the fallback to the selected members
MainAsGiven(main_attacker, selected) == main_attacker

\* if main_attacker is None and selected: main_attacker = max(...)
MainOrMax(main_attacker, selected) ==
    IF main_attacker = None /\ selected # << >> THEN Some(MaxByAttack(selected))
    ELSE main_attacker

\* the selection and the main attacker, once the loop over the attackers
\* stopped at its first addable one
MainChosen(sel, first) ==
    [ sel |-> AddIfScored(sel, first),
      main_attacker |-> MainOrMax(first, AddIfScored(sel, first).selected) ]

\* 2) main attacker
MainPass(sel, attackers) == MainChosen(sel, FirstAddable(sel, attackers))

HasRole(selected, role) == \E i \in 1..Len(selected) : selected[i].role = role

\* the debuffer pass without the stop at a member with role "debuffer"
RECURSIVE DebuffersUntilFull(_, _, _)
DebuffersUntilFull(sel, order, team_size) ==
    IF order = << >> THEN sel
    ELSE IF Len(sel.selected) >= team_size THEN sel
    ELSE IF Head(order).debuff_score <= 400 THEN sel
    ELSE DebuffersUntilFull(add_style(sel, Head(order)), Tail(order), team_size)

\* the debuffer pass without the stop at debuff_score <= 0.4
RECURSIVE DebuffersOfAnyScore(_, _, _)
DebuffersOfAnyScore(sel, order, team_size) ==
    IF order = << >> THEN sel
    ELSE IF Len(sel.selected) >= team_size THEN sel
    ELSE IF CanAdd(sel, Head(order))
         THEN IF HasRole(add_style(sel, Head(order)).selected, "debuffer")
              THEN add_style(sel, Head(order))
              ELSE DebuffersOfAnyScore(add_style(sel, Head(order)), Tail(order), team_size)
         ELSE DebuffersOfAnyScore(sel, Tail(order), team_size)

\* 3) add top debuffers
RECURSIVE DebufferPass(_, _, _)
DebufferPass(sel, order, team_size) ==
    IF order = << >> THEN sel
    ELSE IF Len(sel.selected) >= team_size THEN sel
    ELSE IF Head(order).debuff_score <= 400 THEN sel
    ELSE IF CanAdd(sel, Head(order))
         THEN IF HasRole(add_style(sel, Head(order)).selected, "debuffer")
              THEN add_style(sel, Head(order))
              ELSE DebufferPass(add_style(sel, Head(order)), Tail(order), team_size)
         ELSE DebufferPass(sel, Tail(order), team_size)

\* 4) add top buffers
RECURSIVE BufferPass(_, _, _)
BufferPass(sel, order, team_size) ==
    IF order = << >> THEN sel
    ELSE IF Len(sel.selected) >= team_size THEN sel
    ELSE IF Head(order).support_score <= 400 THEN sel
    ELSE IF CanAdd(sel, Head(order))
         THEN IF HasRole(add_style(sel, Head(order)).selected, "buffer")
              THEN add_style(sel, Head(order))
              ELSE BufferPass(add_style(sel, Head(order)), Tail(order), team_size)
         ELSE BufferPass(sel, Tail(order), team_size)

SupportLike(selected) ==
    Cardinality({ i \in 1..Len(selected) : selected[i].support_score >= 2000 })
DebuffLike(selected) ==
    Cardinality({ i \in 1..Len(selected) : selected[i].debuff_score >= 2000 })

\* support_like >= 2 and debuff_like >= 2
TwoLayers(selected) == SupportLike(selected) >= 2 /\ DebuffLike(selected) >= 2

\* the layer pass that goes on to the end of the order, whatever the layers
RECURSIVE LayersUntilFull(_, _, _)
LayersUntilFull(sel, order, team_size) ==
    IF order = << >> THEN sel
    ELSE IF Len(sel.selected) >= team_size THEN sel
    ELSE LayersUntilFull(add_style(sel, Head(order)), Tail(order), team_size)

\* 4.5) second support layer / debuff layer
RECURSIVE LayerPass(_, _, _)
LayerPass(sel, order, team_size) ==
    IF order = << >> THEN sel
    ELSE IF Len(sel.selected) >= team_size THEN sel
    ELSE IF CanAdd(sel, Head(order))
         THEN IF TwoLayers(add_style(sel, Head(order)).selected)
              THEN add_style(sel, Head(order))
              ELSE LayerPass(add_style(sel, Head(order)), Tail(order), team_size)
         ELSE LayerPass(sel, Tail(order), team_size)

\* the loop of 5)
RECURSIVE FillLoop(_, _, _)
FillLoop(sel, order, team_size) ==
    IF order = << >> THEN sel
    ELSE IF Len(sel.selected) >= team_size THEN sel
    ELSE FillLoop(add_style(sel, Head(order)), Tail(order), team_size)

\* the selection with the main attacker derived again after the fill
Rederived(sel, main_attacker) ==
    [ sel |-> sel, main_attacker |-> MainOrMax(main_attacker, sel.selected) ]

\* no fill: the selection as the layer pass left it
LayerPassOnly(sel, main_attacker, order, team_size) == Rederived(sel, main_attacker)

\* 5) fill with total score; then the main attacker, if there is none yet
FillPass(sel, main_attacker, order, team_size) ==
    Rederived(FillLoop(sel, order, team_size), main_attacker)

----------------------------------------------------------------------------
(* recommend: the damage estimate, the turn plan and the TeamPlan.         *)

\* a * m for an amount a in units and a float m in thousandths
Scale(a, m) == (a \div 1000) * m + ((a % 1000) * m) \div 1000

\* what the buff maps add to total_support_layers for a support skill
SkillSupportLayers(self, s_name) ==
    Mul(Get(self.skill_attack_buff_map, s_name, 0), 700)
    + Mul(Get(self.element_attack_buff_map, s_name, 0), 650)
    + Mul(Get(self.charge_buff_map, s_name, 0), 700)
    + Mul(Get(self.field_buff_map, s_name, 0), 550)
    + Mul(Get(self.crit_damage_buff_map, s_name, 0), 450)
    + Mul(Get(self.crit_rate_buff_map, s_name, 0), 450)

\* the support layers one member adds
MemberSupportLayers(self, member) ==
    (IF member.support_skill # None
     THEN SkillSupportLayers(self, member.support_skill[1].skill_name)
     ELSE 0)
    + (IF member.role = "buffer" \/ member.support_score >= 2000 THEN 50 ELSE 0)

\* the debuff layers one member adds
MemberDebuffLayers(self, member) ==
    (IF /\ member.debuff_skill # None
        /\ member.debuff_skill[1].skill_name \in DOMAIN self.debuff_trait_map
     THEN 120 ELSE 0)
    + (IF member.role = "debuffer" \/ member.debuff_score >= 2000 THEN 80 ELSE 0)

\* skill_mult
SkillMult(finisher) ==
    Max2(500, IF finisher # None THEN finisher[1].multiplier ELSE 1000)

\* total_atk_bonus
TotalAtkBonus(selected) ==
    SeqSum([i \in 1..Len(selected) |-> attack_bonus(selected[i].style)])

\* total_support_layers
TotalSupportLayers(self, selected) ==
    Min2(2200, SeqSum([i \in 1..Len(selected) |-> MemberSupportLayers(self, selected[i])]))

\* total_debuff_layers
TotalDebuffLayers(self, selected) ==
    Min2(1800, SeqSum([i \in 1..Len(selected) |-> MemberDebuffLayers(self, selected[i])]))

\* crit_factor without the clamp of the crit damage bonus at 1.2
CritFactorUnclamped(main_attacker, selected) ==
    1500 + crit_damage_bonus(main_attacker.style)
    + Mul(SeqSum([i \in 1..Len(selected) |-> crit_damage_bonus(selected[i].style)]), 250)

\* crit_factor
CritFactor(main_attacker, selected) ==
    1500 + Min2(1200,
        crit_damage_bonus(main_attacker.style)
        + Mul(SeqSum([i \in 1..Len(selected) |-> crit_damage_bonus(selected[i].style)]),
              250))

\* break_phase_factor
BreakPhaseFactor(phase_has_dp, breaker, skill_mult, total_debuff_layers) ==
    IF phase_has_dp
    THEN 1000 + Min2(850,
             Mul(Max2(500, IF breaker # None THEN breaker[1].multiplier ELSE skill_mult), 45)
             + Mul(total_debuff_layers, 200))
    ELSE 1000

\* the factors of the estimate, from its parts
Factors(main_attacker, phase_has_dp, skill_mult, total_atk_bonus,
        total_support_layers, total_debuff_layers, crit_factor) ==
    [ skill_mult |-> skill_mult,
      weakness |-> Max2(100, main_attacker.weakness_factor),
      total_atk_bonus |-> total_atk_bonus,
      total_support_layers |-> total_support_layers,
      total_debuff_layers |-> total_debuff_layers,
      crit_factor |-> crit_factor,
      break_phase_factor |->
          BreakPhaseFactor(phase_has_dp,
              IF phase_has_dp THEN main_attacker.breaker_skill ELSE None,
              skill_mult, total_debuff_layers) ]

\* the factors of the estimate, for a main attacker and the selected members
DamageFactors(self, main_attacker, selected, enemy) ==
    Factors(main_attacker, HasDp(enemy), SkillMult(main_attacker.finisher_skill),
            TotalAtkBonus(selected), TotalSupportLayers(self, selected),
            TotalDebuffLayers(self, selected), CritFactor(main_attacker, selected))

\* the estimate with the support layers taken off the attack bonus
DamageLessSupport(f) ==
    Scale(Scale(Scale(Scale(Scale(Scale(1000000, f.skill_mult),
        1000 + f.total_atk_bonus - f.total_support_layers),
        1000 + f.total_debuff_layers),
        f.weakness),
        f.crit_factor),
        f.break_phase_factor)

\* base * skill_mult * (1.0 + total_atk_bonus + total_support_layers)
\* * (1.0 + total_debuff_layers) * weakness * crit_factor * break_phase_factor,
\* in units, for base = 1_000_000.0
DamageOf(f) ==
    Scale(Scale(Scale(Scale(Scale(Scale(1000000, f.skill_mult),
        1000 + f.total_atk_bonus + f.total_support_layers),
        1000 + f.total_debuff_layers),
        f.weakness),
        f.crit_factor),
        f.break_phase_factor)

\* estimated_damage, in units, and relative_score = estimated_damage / base,
\* in thousandths
Estimated(damage) == [estimated_damage |-> damage, relative_score |-> damage \div 1000]

\* the estimate of recommend
EstimateDamage(self, main_attacker, selected, enemy) ==
    IF main_attacker = None THEN Estimated(0)
    ELSE Estimated(DamageOf(DamageFactors(self, main_attacker[1], selected, enemy)))

\* s[:n] of a list
Slice(s, n) ==
    IF n >= 0 THEN SubSeq(s, 1, Min2(n, Len(s)))
    ELSE SubSeq(s, 1, Max2(0, Len(s) + n))

\* an action of the turn plan: what it says, of which style, with which skill
\* (or enemy)
Action(say, style_name, name) == [say |-> say, style_name |-> style_name, name |-> name]

\* the skill a member acts with in turn 1
TurnOneSkill(member, kind) ==
    IF kind = "debuff" THEN member.debuff_skill[1] ELSE member.support_skill[1]

\* the loop over the Turn1 members without the skip of those already listed
RECURSIVE TurnOneRepeats(_, _, _)
TurnOneRepeats(members, kind, acted) ==
    IF members = << >> THEN << >>
    ELSE << Action("use", Head(members).style.style_name,
                   TurnOneSkill(Head(members), kind).skill_name) >>
         \o TurnOneRepeats(Tail(members), kind, acted)

\* a loop over the Turn1 members: "{style} -> {skill}" of those not yet listed
RECURSIVE TurnOneActions(_, _, _)
TurnOneActions(members, kind, acted) ==
    IF members = << >> THEN << >>
    ELSE IF Head(members).style.style_name \in acted
    THEN TurnOneActions(Tail(members), kind, acted)
    ELSE << Action("use", Head(members).style.style_name,
                   TurnOneSkill(Head(members), kind).skill_name) >>
         \o TurnOneActions(Tail(members), kind,
                           acted \cup {Head(members).style.style_name})

\* [x for x in team if x.<kind>_skill is not None and x != main_attacker]
DebuffersOf(team, main_attacker) ==
    SelectSeq(team, LAMBDA x : x.debuff_skill # None /\ Some(x) # main_attacker)
BuffersOf(team, main_attacker) ==
    SelectSeq(team, LAMBDA x : x.support_skill # None /\ Some(x) # main_attacker)

\* the actions of the buffers after those of the debuffers
WithBuffActions(d_actions, buffers) ==
    d_actions
    \o TurnOneActions(Slice(buffers, 2), "buff",
                      { d_actions[i].style_name : i \in 1..Len(d_actions) })

\* if not t1_actions: the one action that names nobody
OrPrepare(t1_actions) ==
    IF t1_actions = << >> THEN << Action("prepare", << >>, << >>) >> ELSE t1_actions

\* t1_actions
TurnOne(team, main_attacker) ==
    OrPrepare(WithBuffActions(
        TurnOneActions(Slice(DebuffersOf(team, main_attacker), 2), "debuff", {}),
        BuffersOf(team, main_attacker)))

\* t2_actions
TurnTwo(main_attacker, enemy) ==
    (IF enemy # None THEN << Action("adjust", << >>, enemy[1].name) >> ELSE << >>)
    \o (IF HasDp(enemy) /\ main_attacker # None /\ main_attacker[1].breaker_skill # None
        THEN << Action("break", main_attacker[1].style.style_name,
                       main_attacker[1].breaker_skill[1].skill_name) >>
        ELSE << Action("recover", << >>, << >>) >>)

\* t3_actions
TurnThree(main_attacker, enemy) ==
    IF main_attacker = None THEN << Action("finish_by_top", << >>, << >>) >>
    ELSE IF main_attacker[1].finisher_skill = None
    THEN << Action("max_skill", main_attacker[1].style.style_name, << >>) >>
    ELSE << Action(IF HasDp(enemy) THEN "finish_hp" ELSE "finish",
                   main_attacker[1].style.style_name,
                   main_attacker[1].finisher_skill[1].skill_name) >>

\* _build_turn_plan: the actions of the three turns
build_turn_plan(team, main_attacker, enemy) ==
    << TurnOne(team, main_attacker), TurnTwo(main_attacker, enemy),
       TurnThree(main_attacker, enemy) >>

\* the team without the cut to team_size
UncutTeam(selected, main_attacker, team_size) ==
    IF main_attacker # None
    THEN main_attacker
         \o SelectSeq(selected,
                LAMBDA x : x.style.style_name # main_attacker[1].style.style_name)
    ELSE selected

\* the team without the main attacker put first
CutSelected(selected, main_attacker, team_size) == Slice(selected, team_size)

\* the team with the members after the main attacker in reverse order
OthersReversed(selected, main_attacker, team_size) ==
    LET others == SelectSeq(selected,
                      LAMBDA x : main_attacker = None
                                 \/ x.style.style_name # main_attacker[1].style.style_name)
    IN  Slice(main_attacker \o [i \in 1..Len(others) |-> others[Len(others) + 1 - i]],
              team_size)

\* the team of the TeamPlan: the main attacker first, cut to team_size
TeamOf(selected, main_attacker, team_size) ==
    Slice(IF main_attacker # None
          THEN main_attacker
               \o SelectSeq(selected,
                      LAMBDA x : x.style.style_name # main_attacker[1].style.style_name)
          ELSE selected,
          team_size)

\* the TeamPlan recommend returns
TeamPlan(selected, main_attacker, enemy, team_size, est, unmatched_owned, unmatched_wanted) ==
    [ team |-> TeamOf(selected, main_attacker, team_size),
      main_attacker |-> main_attacker,
      enemy |-> enemy,
      estimated_damage |-> est.estimated_damage,
      relative_score |-> est.relative_score,
      turn_plan |-> build_turn_plan(selected, main_attacker, enemy),
      unmatched_owned |-> unmatched_owned,
      unmatched_wanted |-> unmatched_wanted ]

----------------------------------------------------------------------------
(* recommend as one function of the advisor and the arguments.             *)

\* the advisor after _skills_for_style read its two dicts for a style
AfterSkillsForStyle(self, style) ==
    IF Get(self.skills_by_style_hint, style.style_name, << >>) # << >>
    THEN [self EXCEPT !.skills_by_style_hint = AfterGet(@, style.style_name)]
    ELSE [self EXCEPT !.skills_by_style_hint = AfterGet(@, style.style_name),
                      !.skills_by_character = AfterGet(@, style.character)]

\* the advisor after the pool was scored
RECURSIVE AfterScoring(_, _)
AfterScoring(self, pool) ==
    IF pool = << >> THEN self
    ELSE AfterScoring(AfterSkillsForStyle(self, Head(pool)), Tail(pool))

\* the arguments of a call of recommend
Args(owned, wanted, enemy_name, weapon, element, team_size) ==
    [ owned_queries |-> owned, wanted_queries |-> wanted, enemy_name |-> enemy_name,
      preferred_weapon |-> weapon, preferred_element |-> element,
      team_size |-> team_size ]

\* the one list sorted() returns
TheSorted(seq, key) == CHOOSE s \in Sorted(seq, key) : TRUE

\* passes 3) to 5) after the main attacker was chosen
PassesAfterMain(chosen, scores, team_size) ==
    FillPass(
        LayerPass(
            BufferPass(
                DebufferPass(chosen.sel, TheSorted(scores, "debuff_score"), team_size),
                TheSorted(scores, "support_score"), team_size),
            TheSorted(scores, "max_support_debuff"), team_size),
        chosen.main_attacker, TheSorted(scores, "total_score"), team_size)

\* the selection and the main attacker after the passes, for given scores
SelectionOf(scores, matched_wanted, team_size) ==
    PassesAfterMain(
        MainPass(ForceAddWanted(NoSelection, matched_wanted, scores),
                 TheSorted(scores, "attack_score")),
        scores, team_size)

\* recommend from the damage estimate on
ChosenPlan(self, chosen, enemy, args, owned, wanted) ==
    TeamPlan(chosen.sel.selected, chosen.main_attacker, enemy, args.team_size,
             EstimateDamage(self, chosen.main_attacker, chosen.sel.selected, enemy),
             owned.unresolved, wanted.unresolved)

\* recommend from the selection on
ScoredPlan(self, args, owned, wanted, enemy, scores) ==
    ChosenPlan(self, SelectionOf(scores, wanted.uniq, args.team_size),
               enemy, args, owned, wanted)

\* recommend from the pool on
ResolvedPlan(self, args, owned, wanted, enemy) ==
    ScoredPlan(self, args, owned, wanted, enemy,
        PoolScores(self, CandidatePool(self, owned.uniq, wanted.uniq), wanted.uniq,
                   enemy, args.preferred_weapon, args.preferred_element))

\* recommend
recommend(self, args) ==
    ResolvedPlan(self, args,
        resolve_style_queries(self, args.owned_queries),
        resolve_style_queries(self, args.wanted_queries),
        find_enemy(self, args.enemy_name))

----------------------------------------------------------------------------
(* The state: one advisor, shared by the calls of recommend that the       *)
(* threads of the server (ThreadingHTTPServer) run, and each call's        *)
(* position and local variables.                                           *)

VARIABLES advisor, call

vars == <<advisor, call>>

CallIds == {"c1", "c2"}

\* the advisor as constructed
Advisor0 == BattleAdvisor(Styles, Skills, Enemies, Knowledge)

\* the queries a caller gives: they match by case (aa), as a substring (A, b),
\* after stripping (" Ba "), fuzzily (Bc) or not at all ("zz "), or are blank
QuerySet ==
    { <<"a","a">>, <<"A">>, <<"b">>, <<" ","B","a"," ">>, <<"B","c">>,
      <<"z","z"," ">>, <<" ">> }

\* the enemy names a caller gives: none, a name, a part of a name, no name
EnemyNames == { << >>, <<"G","a">>, <<"a","b">>, <<"z","z">> }

\* the preferred weapon and element a caller gives
Preferences == { <<"", "">>, <<"slash", "ice">> }

\* the team sizes a caller gives: the command line takes any int
TeamSizes == (0 - 1)..MaxTeamSize

SeqsUpTo(S, n) == UNION { [1..k -> S] : k \in 0..n }

\* the arguments of two calls that run at the same time
ConcurrentArgs ==
    { Args(o, w, e, "", "", MaxTeamSize) :
        o \in { << >>, << <<"C">>, <<"D">> >> },
        w \in { << >>, << <<"b">> >>, << <<"z","z">>, <<"B","c">> >> },
        e \in { << >>, <<"G","a">> } }

\* a call before its first step, and a thread that runs no call
NewCall(args, pc) ==
    [ pc |-> pc, args |-> args,
      matched_owned |-> << >>, unmatched_owned |-> << >>,
      matched_wanted |-> << >>, unmatched_wanted |-> << >>,
      pool |-> << >>, enemy |-> None, scores |-> << >>,
      sel |-> NoSelection, main_attacker |-> None,
      estimated_damage |-> 0, relative_score |-> 0,
      plan |-> None ]

NoArgs == Args(<< >>, << >>, << >>, "", "", 0)

\* one call
Init ==
    /\ advisor = Advisor0
    /\ \E o \in SeqsUpTo(QuerySet, MaxQueries) :
       \E w \in SeqsUpTo(QuerySet, MaxQueries - Len(o)) :
       \E e \in EnemyNames, p \in Preferences, t \in TeamSizes :
           call = [c \in CallIds |->
                      IF c = "c1" THEN NewCall(Args(o, w, e, p[1], p[2], t), "start")
                      ELSE NewCall(NoArgs, "idle")]

\* two calls at the same time
InitConcurrent ==
    /\ advisor = Advisor0
    /\ \E a, b \in ConcurrentArgs :
           call = [c \in CallIds |-> NewCall(IF c = "c1" THEN a ELSE b, "start")]

\* the locals of a call after the two calls of resolve_style_queries
Resolved(cl, owned, wanted) ==
    [cl EXCEPT !.pc = "resolved",
               !.matched_owned = owned.uniq, !.unmatched_owned = owned.unresolved,
               !.matched_wanted = wanted.uniq, !.unmatched_wanted = wanted.unresolved]

\* matched_owned, unmatched_owned = self.resolve_style_queries(owned_queries), and
\* the same for wanted
Resolve(c) ==
    /\ call[c].pc = "start"
    /\ call' = [call EXCEPT ![c] =
                   Resolved(call[c],
                            resolve_style_queries(advisor, call[c].args.owned_queries),
                            resolve_style_queries(advisor, call[c].args.wanted_queries))]
    /\ UNCHANGED advisor

\* the locals of a call after the pool was scored against the enemy
Scored(self, cl, pool, enemy) ==
    [cl EXCEPT !.pc = "scored", !.pool = pool, !.enemy = enemy,
               !.scores = PoolScores(self, pool, cl.matched_wanted, enemy,
                                     cl.args.preferred_weapon, cl.args.preferred_element)]

\* the pool, the enemy and the scores
Score(c) ==
    /\ call[c].pc = "resolved"
    /\ call' = [call EXCEPT ![c] =
                   Scored(advisor, call[c],
                          CandidatePool(advisor, call[c].matched_owned, call[c].matched_wanted),
                          find_enemy(advisor, call[c].args.enemy_name))]
    /\ advisor' = AfterScoring(advisor, call'[c].pool)

\* the locals of a call after a pass
Selected(cl, pc, chosen) ==
    [cl EXCEPT !.pc = pc, !.sel = chosen.sel, !.main_attacker = chosen.main_attacker]

\* 1) force-add wanted styles
ForceWanted(c) ==
    /\ call[c].pc = "scored"
    /\ call' = [call EXCEPT ![c].pc = "forced",
                            ![c].sel = ForceAddWanted(NoSelection, call[c].matched_wanted,
                                                      call[c].scores)]
    /\ UNCHANGED advisor

\* 2) main attacker
MainAttacker(c) ==
    /\ call[c].pc = "forced"
    /\ \E attackers \in Sorted(call[c].scores, "attack_score") :
           call' = [call EXCEPT ![c] =
                       Selected(call[c], "main", MainPass(call[c].sel, attackers))]
    /\ UNCHANGED advisor

\* 3) add top debuffers
Debuffers(c) ==
    /\ call[c].pc = "main"
    /\ \E order \in Sorted(call[c].scores, "debuff_score") :
           call' = [call EXCEPT ![c].pc = "debuff",
                                ![c].sel = DebufferPass(call[c].sel, order,
                                                        call[c].args.team_size)]
    /\ UNCHANGED advisor

\* 4) add top buffers
Buffers(c) ==
    /\ call[c].pc = "debuff"
    /\ \E order \in Sorted(call[c].scores, "support_score") :
           call' = [call EXCEPT ![c].pc = "buffer",
                                ![c].sel = BufferPass(call[c].sel, order,
                                                      call[c].args.team_size)]
    /\ UNCHANGED advisor

\* 4.5) second support layer / debuff layer
Layers(c) ==
    /\ call[c].pc = "buffer"
    /\ \E order \in Sorted(call[c].scores, "max_support_debuff") :
           call' = [call EXCEPT ![c].pc = "layer",
                                ![c].sel = LayerPass(call[c].sel, order,
                                                     call[c].args.team_size)]
    /\ UNCHANGED advisor

\* 5) fill with total score, and the main attacker if there is none yet
Fill(c) ==
    /\ call[c].pc = "layer"
    /\ \E order \in Sorted(call[c].scores, "total_score") :
           call' = [call EXCEPT ![c] =
                       Selected(call[c], "fill",
                                FillPass(call[c].sel, call[c].main_attacker, order,
                                         call[c].args.team_size))]
    /\ UNCHANGED advisor

\* the locals of a call after the damage estimate
Estimates(cl, est) ==
    [cl EXCEPT !.pc = "estimated",
               !.estimated_damage = est.estimated_damage,
               !.relative_score = est.relative_score]

\* the damage estimate
Estimate(c) ==
    /\ call[c].pc = "fill"
    /\ call' = [call EXCEPT ![c] =
                   Estimates(call[c],
                       EstimateDamage(advisor, call[c].main_attacker,
                                      call[c].sel.selected, call[c].enemy))]
    /\ UNCHANGED advisor

\* the TeamPlan of a call, from its locals
PlanOf(cl) ==
    TeamPlan(cl.sel.selected, cl.main_attacker, cl.enemy, cl.args.team_size,
             [estimated_damage |-> cl.estimated_damage, relative_score |-> cl.relative_score],
             cl.unmatched_owned, cl.unmatched_wanted)

\* the turn plan, the main attacker put first, and the TeamPlan returned
Return(c) ==
    /\ call[c].pc = "estimated"
    /\ call' = [call EXCEPT ![c].pc = "done", ![c].plan = Some(PlanOf(call[c]))]
    /\ UNCHANGED advisor

Next ==
    \E c \in CallIds :
        \/ Resolve(c)
        \/ Score(c)
        \/ ForceWanted(c)
        \/ MainAttacker(c)
        \/ Debuffers(c)
        \/ Buffers(c)
        \/ Layers(c)
        \/ Fill(c)
        \/ Estimate(c)
        \/ Return(c)

Spec == Init /\ [][Next]_vars

SpecConcurrent == InitConcurrent /\ [][Next]_vars

----------------------------------------------------------------------------
(* Advisors over other data: the roster with buff tables that hold a value *)
(* to vary, a roster of styles that have one plain skill, and no roster.   *)

\* the values of the field buff of skill k2, as fractions in thousandths
BuffValues == {300, 500, 600, 800}

\* the advisor of the roster whose knowledge holds a charge buff of skill k1
\* and the field buff v of skill k2
BuffAdvisor(v) ==
    BattleAdvisor(Styles, Skills, Enemies,
        [ t \in {"charge_buffs", "field_buffs"} |->
            IF t = "charge_buffs"
            THEN Table(<< Row(<<"k","1">>, "max_value", Number(500)) >>)
            ELSE Table(<< Row(<<"k","2">>, "value", Number(v)) >>) ])

\* the advisor of four styles of one character that has one skill of
\* multiplier 2.0 without notes, an enemy without dp whose weakness
\* multipliers are 1.0, and no knowledge
PlainAdvisor ==
    BattleAdvisor(
        << Style(<<"A","a">>, << >>, <<"R">>, "S", <<100, 200>>, <<0, 100>>,
                 <<0, 0>>, <<0, 0>>, EmptyText),
           Style(<<"A","b">>, << >>, <<"R">>, "S", <<0, 600>>, <<0, 0>>,
                 <<0, 0>>, <<0, 0>>, EmptyText),
           Style(<<"B","a">>, << >>, <<"R">>, "A", <<0, 0>>, <<0, 0>>,
                 <<300, 0>>, <<0, 1000>>, EmptyText),
           Style(<<"B","b">>, << >>, <<"R">>, "SS", <<0, 0>>, <<0, 1000>>,
                 <<0, 0>>, <<0, 0>>, EmptyText) >>,
        << Skill(<<"k","1">>, "slash", "none", << >>, <<"R">>, 2000, EmptyText) >>,
        << [ name |-> <<"G","a">>, dp |-> 0,
             weapon_mult |-> [w \in {"slash"} |-> 1000],
             element_mult |-> [e \in {"none"} |-> 1000] ] >>,
        EmptyMap)

\* the advisor of no styles
EmptyRosterAdvisor == BattleAdvisor(<< >>, Skills, Enemies, Knowledge)

\* the advisor over a knowledge whose skill_attack_buffs table has a row that
\* is not a dict, a row with a blank skill_name, a value that does not parse,
\* a skill_name twice and a row without the value key, and whose
\* field_buffs table is not a list; its enemy has a negative and a zero
\* weapon multiplier and a zero element multiplier
OddRowsAdvisor ==
    BattleAdvisor(Styles, Skills,
        << [Enemies[1] EXCEPT
               !.weapon_mult = [w \in {"slash", "stab", "strike"} |->
                                   IF w = "slash" THEN 0 - 500 ELSE 0],
               !.element_mult = [e \in {"fire"} |-> 0]] >>,
        [ t \in {"skill_attack_buffs", "field_buffs"} |->
            IF t = "field_buffs" THEN NotAList
            ELSE Table(<< [is_dict |-> FALSE],
                          Row(<<" "," ">>, "max_value", Number(500)),
                          Row(<<"k","1">>, "max_value", [parses |-> FALSE, v |-> 0]),
                          Row(<<"k","3">>, "max_value", Number(30000)),
                          Row(<<" ","k","3"," ">>, "max_value", Number(1500)),
                          Row(<<"k","6">>, "value", Number(700)) >>) ])

\* the advisor over a roster with one more style, whose name "A" is the
\* start of other names and whose crit damage bonus is negative
ShortNameAdvisor ==
    BattleAdvisor(Styles \o << Style(<<"A">>, << >>, <<"Q">>, "A", <<0, 0>>,
                                     <<0 - 2000, 0 - 2000>>, <<0, 0>>, <<0, 0>>,
                                     EmptyText) >>,
                  Skills, Enemies, Knowledge)

\* one call on one of these advisors
InitOtherData ==
    \/ /\ advisor \in {EmptyRosterAdvisor, Advisor0, ShortNameAdvisor, OddRowsAdvisor}
       /\ \E o \in { << >>, << <<"a","a">> >>, << <<"A">>, <<"a">> >>,
                     << <<"B","b">>, <<"A","b">> >>,
                     << <<"A","a">>, <<"B","b">>, <<"C","a">>, <<"D","a">> >>,
                     << <<"A","b">>, <<"B","a">>, <<"B","b">>, <<"C","a">>, <<"D","a">> >> },
             w \in { << >>, << <<"b">> >> },
             e \in { << >>, <<"G","a">> }, t \in (0 - 1)..(MaxTeamSize + 2) :
              call = [c \in CallIds |->
                         IF c = "c1" THEN NewCall(Args(o, w, e, "", "", t), "start")
                         ELSE NewCall(NoArgs, "idle")]
    \/ /\ \E v \in BuffValues : advisor = BuffAdvisor(v)
       /\ \E o \in { << >>, << <<"a","a">> >>, << <<"A">> >> },
             e \in { << >>, <<"G","a">> }, pe \in {"", "ice"}, t \in 1..MaxTeamSize :
              call = [c \in CallIds |->
                         IF c = "c1" THEN NewCall(Args(o, << >>, e, "", pe, t), "start")
                         ELSE NewCall(NoArgs, "idle")]
    \/ /\ advisor = PlainAdvisor
       /\ \E o \in { << >>, << <<"A","a">> >>, << <<"A","b">> >>, << <<"B","a">> >>,
                     << <<"B","b">> >> },
             e \in { << >>, <<"G","a">> }, p \in Preferences, t \in 1..MaxTeamSize :
              call = [c \in CallIds |->
                         IF c = "c1" THEN NewCall(Args(o, << >>, e, p[1], p[2], t), "start")
                         ELSE NewCall(NoArgs, "idle")]

SpecOtherData == InitOtherData /\ [][Next]_vars

----------------------------------------------------------------------------
(* Properties.  The advisor in them is the shared one; a call has resolved *)
(* its queries once it left "start", has its scores once it reached        *)
(* "scored", and has returned once its plan is set.                        *)

HasResolved(c) == call[c].pc \notin {"idle", "start"}
HasScored(c) == call[c].pc \notin {"idle", "start", "resolved"}
HasReturned(c) == call[c].plan # None

Characters(members) == { members[i].style.character : i \in 1..Len(members) }

DistinctCharacters(members) ==
    \A i, j \in 1..Len(members) :
        i # j => members[i].style.character # members[j].style.character

\* C1: in every call the members selected so far have pairwise different
\* characters after every pass, used_chars being exactly their characters (a
\* pass only appends to the selection, so this covers the selection after
\* each add of the pass), and no two members of a returned team share a
\* character.
C1_CharacterUnique ==
    \A c \in CallIds :
        /\ DistinctCharacters(call[c].sel.selected)
        /\ call[c].sel.used_chars = Characters(call[c].sel.selected)
        /\ HasReturned(c) => DistinctCharacters(call[c].plan[1].team)

\* a full team was returned from a pool that holds two styles of one
\* character, with a wanted style force-added
C1_Witness ==
    \E c \in CallIds :
        /\ HasReturned(c)
        /\ Len(call[c].plan[1].team) = MaxTeamSize
        /\ call[c].matched_wanted # << >>
        /\ ~DistinctCharacters([i \in 1..Len(call[c].pool) |-> [style |-> call[c].pool[i]]])

\* C2, amended: for every call with team_size >= 0, len(team) <= team_size;
\* and when team_size >= 1 and the pool is not empty, the team is not empty.
C2_TeamSizeBound ==
    \A c \in CallIds :
        HasReturned(c) =>
            /\ call[c].args.team_size >= 0 =>
                   Len(call[c].plan[1].team) <= call[c].args.team_size
            /\ call[c].args.team_size >= 1 /\ call[c].pool # << >> =>
                   call[c].plan[1].team # << >>

\* C2 as stated: for every call, len(team) <= team_size; and when
\* team_size >= 1 and the pool is not empty, the team is not empty.
C2_AsStated ==
    \A c \in CallIds :
        HasReturned(c) =>
            /\ Len(call[c].plan[1].team) <= call[c].args.team_size
            /\ call[c].args.team_size >= 1 /\ call[c].pool # << >> =>
                   call[c].plan[1].team # << >>

\* more styles were selected than team_size allows, and the team was cut
C2_Witness ==
    \E c \in CallIds :
        /\ HasReturned(c)
        /\ call[c].args.team_size >= 1
        /\ Len(call[c].sel.selected) > call[c].args.team_size
        /\ Len(call[c].plan[1].team) = call[c].args.team_size

\* C3: with team_size = 1 and a pool that is not empty, the team has exactly
\* one member, and it is the main attacker of the plan.
C3_SingleMember ==
    \A c \in CallIds :
        HasReturned(c) /\ call[c].args.team_size = 1 /\ call[c].pool # << >> =>
            /\ Len(call[c].plan[1].team) = 1
            /\ call[c].plan[1].main_attacker = Some(call[c].plan[1].team[1])

\* team_size = 1, two wanted styles were force-added first, and the main
\* attacker is neither of them
C3_Witness ==
    \E c \in CallIds :
        /\ HasReturned(c)
        /\ call[c].args.team_size = 1
        /\ Len(call[c].matched_wanted) = 2
        /\ call[c].plan[1].main_attacker # None
        /\ \A i \in 1..2 :
               call[c].plan[1].main_attacker[1].style # call[c].matched_wanted[i]

\* the query at place i resolves to the style of this name
ResolvesTo(self, queries, i, style_name) ==
    /\ Strip(queries[i]) # << >>
    /\ ResolveQuery(self, Strip(queries[i])) # None
    /\ ResolveQuery(self, Strip(queries[i]))[1].style_name = style_name

\* the place of the first query that resolves to the style of this name
FirstMatch(self, queries, style_name) ==
    CHOOSE i \in 1..Len(queries) :
        /\ ResolvesTo(self, queries, i, style_name)
        /\ \A j \in 1..(i - 1) : ~ResolvesTo(self, queries, j, style_name)

\* the query, trimmed, is not empty and matches in none of the four tiers
MatchesNoTier(self, query) ==
    Strip(query) # << >> /\ MatchTier(self, Strip(query)) = "none"

Count(seq, x) == Cardinality({ i \in 1..Len(seq) : seq[i] = x })

\* the resolved styles are pairwise distinct by style_name, each is the style
\* a query resolves to, every style a query resolves to is among them, and
\* they are in the order of the first queries that matched them
ResolvedInOrder(self, queries, uniq) ==
    /\ \A k, l \in 1..Len(uniq) : k # l => uniq[k].style_name # uniq[l].style_name
    /\ \A k \in 1..Len(uniq) :
           \E i \in 1..Len(queries) :
               /\ ResolvesTo(self, queries, i, uniq[k].style_name)
               /\ ResolveQuery(self, Strip(queries[i]))[1] = uniq[k]
    /\ \A i \in 1..Len(queries) :
           Strip(queries[i]) # << >> /\ ResolveQuery(self, Strip(queries[i])) # None =>
               \E k \in 1..Len(uniq) :
                   uniq[k] = ResolveQuery(self, Strip(queries[i]))[1]
    /\ \A k, l \in 1..Len(uniq) :
           k < l => FirstMatch(self, queries, uniq[k].style_name)
                    < FirstMatch(self, queries, uniq[l].style_name)

\* the unresolved list is the list of the trimmed queries that match in no
\* tier, one entry for each time such a query is given, in the order given
UnresolvedPerOccurrence(self, queries, unresolved) ==
    unresolved = SelectSeq([i \in 1..Len(queries) |-> Strip(queries[i])],
                           LAMBDA q : MatchesNoTier(self, q))

\* every query that matches in no tier is, trimmed, exactly once in the list
UnresolvedOnce(self, queries, unresolved) ==
    \A i \in 1..Len(queries) :
        MatchesNoTier(self, queries[i]) => Count(unresolved, Strip(queries[i])) = 1

\* C4, amended: resolve_style_queries returns resolved styles that are
\* pairwise distinct by style_name and ordered by the first query that matched
\* each of them, and every query that matches in none of the four tiers is in
\* the unresolved list, trimmed, once for each time it is given.
C4_Resolve ==
    \A c \in CallIds :
        call[c].pc = "resolved" =>
            /\ ResolvedInOrder(advisor, call[c].args.owned_queries, call[c].matched_owned)
            /\ ResolvedInOrder(advisor, call[c].args.wanted_queries, call[c].matched_wanted)
            /\ UnresolvedPerOccurrence(advisor, call[c].args.owned_queries,
                                       call[c].unmatched_owned)
            /\ UnresolvedPerOccurrence(advisor, call[c].args.wanted_queries,
                                       call[c].unmatched_wanted)

\* C4 as stated: the resolved styles are pairwise distinct by style_name and
\* ordered by the first query that matched each of them, and every query that
\* matches in none of the four tiers is exactly once in the unresolved list.
C4_AsStated ==
    \A c \in CallIds :
        call[c].pc = "resolved" =>
            /\ ResolvedInOrder(advisor, call[c].args.owned_queries, call[c].matched_owned)
            /\ ResolvedInOrder(advisor, call[c].args.wanted_queries, call[c].matched_wanted)
            /\ UnresolvedOnce(advisor, call[c].args.owned_queries, call[c].unmatched_owned)
            /\ UnresolvedOnce(advisor, call[c].args.wanted_queries, call[c].unmatched_wanted)

\* two queries resolved to one style, which is listed once
C4_Witness ==
    \E c \in CallIds :
        /\ HasResolved(c)
        /\ Len(call[c].args.owned_queries) = 2
        /\ call[c].args.owned_queries[1] # call[c].args.owned_queries[2]
        /\ Len(call[c].matched_owned) = 1
        /\ call[c].unmatched_owned = << >>
        /\ \A i \in 1..2 :
               ResolvesTo(advisor, call[c].args.owned_queries, i,
                          call[c].matched_owned[1].style_name)

\* C5: when an owned query resolves, every member of the returned team is a
\* matched owned style or a matched wanted style; when none resolves, the
\* pool is the whole roster together with the matched wanted styles.
C5_Pool ==
    \A c \in CallIds :
        /\ HasReturned(c) /\ call[c].matched_owned # << >> =>
               \A i \in 1..Len(call[c].plan[1].team) :
                   call[c].plan[1].team[i].style
                       \in Range(call[c].matched_owned) \cup Range(call[c].matched_wanted)
        /\ HasScored(c) /\ call[c].matched_owned = << >> =>
               /\ Range(call[c].pool)
                      = Range(advisor.styles) \cup Range(call[c].matched_wanted)
               /\ Len(call[c].pool) = Cardinality(Range(call[c].pool))

\* the team is smaller than team_size because the pool is the owned and the
\* wanted styles only, and a member is a wanted style that is not owned
C5_Witness ==
    \E c \in CallIds :
        /\ HasReturned(c)
        /\ call[c].matched_owned # << >>
        /\ 0 < Len(call[c].plan[1].team)
        /\ Len(call[c].plan[1].team) < call[c].args.team_size
        /\ \E i \in 1..Len(call[c].plan[1].team) :
               /\ call[c].plan[1].team[i].style \in Range(call[c].matched_wanted)
               /\ call[c].plan[1].team[i].style \notin Range(call[c].matched_owned)

\* C6: two calls with the same arguments on the one advisor return the same
\* TeamPlan: the same team in the same order, main attacker, scores, damage,
\* turn plan and unmatched lists.
C6_Deterministic ==
    \A c, d \in CallIds :
        HasReturned(c) /\ HasReturned(d) /\ call[c].args = call[d].args =>
            call[c].plan = call[d].plan

\* two calls with the same arguments returned, for a pool of two styles whose
\* scores are equal under every key of the sorts
C6_Witness ==
    /\ HasReturned("c1") /\ HasReturned("c2")
    /\ call["c1"].args = call["c2"].args
    /\ \E i, j \in 1..Len(call["c1"].scores) :
           /\ i # j
           /\ \A key \in {"attack_score", "debuff_score", "support_score",
                          "max_support_debuff", "total_score"} :
                  SortKey(call["c1"].scores[i], key) = SortKey(call["c1"].scores[j], key)
           /\ \E k \in 1..Len(call["c1"].plan[1].team) :
                  call["c1"].plan[1].team[k] = call["c1"].scores[i]

\* C7: no step of a call changes the advisor, and a call that runs while
\* another one runs returns the TeamPlan it returns when it runs alone.
C7_NoMutation ==
    /\ advisor = Advisor0
    /\ \A c \in CallIds :
           HasReturned(c) => call[c].plan[1] = recommend(Advisor0, call[c].args)

\* one call returned while the other, with other arguments, is between two
\* of its passes, after it scored a style that has no skills
C7_Witness ==
    /\ HasReturned("c1")
    /\ call["c2"].pc = "buffer"
    /\ call["c1"].args # call["c2"].args
    /\ \E i \in 1..Len(call["c2"].pool) :
           skills_for_style(advisor, call["c2"].pool[i]) = << >>

\* no enemy has this name or a name that contains it
UnknownEnemy(self, enemy_name) ==
    /\ enemy_name # << >>
    /\ \A i \in 1..Len(self.enemies) :
           /\ self.enemies[i].name # enemy_name
           /\ ~IsSubstring(enemy_name, self.enemies[i].name)

\* every query of the list that resolves to no style is, trimmed, in unmatched
Reported(self, queries, unmatched) ==
    \A i \in 1..Len(queries) :
        Strip(queries[i]) # << >> /\ ResolveQuery(self, Strip(queries[i])) = None =>
            Strip(queries[i]) \in Range(unmatched)

\* the plan a call returned lists the queries that resolve to no style, and
\* for an unknown enemy name it is the plan of the call without an enemy name
ReturnedAsWithoutError(c) ==
    /\ Reported(advisor, call[c].args.owned_queries, call[c].plan[1].unmatched_owned)
    /\ Reported(advisor, call[c].args.wanted_queries, call[c].plan[1].unmatched_wanted)
    /\ UnknownEnemy(advisor, call[c].args.enemy_name) =>
           /\ call[c].plan[1].enemy = None
           /\ call[c].plan[1]
                  = recommend(Advisor0, [call[c].args EXCEPT !.enemy_name = << >>])

\* C8: a call ends only by returning a TeamPlan (every step of recommend is
\* total, there is no step that raises); the plan lists the queries that
\* resolve to no style in unmatched_owned and unmatched_wanted; and for an
\* enemy name that no enemy has or contains, the plan has no enemy and is the
\* plan of the same call without an enemy name (team, scores and damage).
C8_NoError ==
    \A c \in CallIds :
        /\ call[c].pc = "done" <=> HasReturned(c)
        /\ HasReturned(c) => ReturnedAsWithoutError(c)

\* a plan was returned for an unknown enemy name and a query that resolves
\* to no style
C8_Witness ==
    \E c \in CallIds :
        /\ HasReturned(c)
        /\ UnknownEnemy(advisor, call[c].args.enemy_name)
        /\ call[c].plan[1].unmatched_wanted # << >>
        /\ call[c].plan[1].team # << >>

\* the overall attack score of a skill in a call
Overall(c, skill) ==
    attack_skill_score(advisor, skill, call[c].enemy, call[c].args.preferred_weapon,
                       call[c].args.preferred_element).overall

\* the score against HP of a skill in a call
HpScore(c, skill) ==
    attack_skill_score(advisor, skill, call[c].enemy, call[c].args.preferred_weapon,
                       call[c].args.preferred_element).hp_score

\* the skill, if any, is a best overall-attack skill of the style in the call
BestOverall(c, style, skill) ==
    IF skill = None THEN skills_for_style(advisor, style) = << >>
    ELSE /\ skill[1] \in Range(skills_for_style(advisor, style))
         /\ \A sk \in Range(skills_for_style(advisor, style)) :
                Overall(c, sk) <= Overall(c, skill[1])

\* C9: for every scored style, when there is no enemy or the enemy's dp <= 0,
\* breaker_skill and finisher_skill are the same skill, the best
\* overall-attack skill of the style, or both are absent.
C9_SamePhaseSkill ==
    \A c \in CallIds :
        HasScored(c) /\ (call[c].enemy = None \/ call[c].enemy[1].dp <= 0) =>
            \A i \in 1..Len(call[c].scores) :
                /\ call[c].scores[i].breaker_skill = call[c].scores[i].finisher_skill
                /\ BestOverall(c, call[c].scores[i].style, call[c].scores[i].finisher_skill)

\* against an enemy with dp <= 0, a style has one skill as breaker and
\* finisher although another of its skills scores more against HP
C9_Witness ==
    \E c \in CallIds :
        /\ HasScored(c)
        /\ call[c].enemy # None
        /\ call[c].enemy[1].dp <= 0
        /\ \E i \in 1..Len(call[c].scores) :
               /\ call[c].scores[i].finisher_skill # None
               /\ call[c].scores[i].breaker_skill = call[c].scores[i].finisher_skill
               /\ \E sk \in Range(skills_for_style(advisor, call[c].scores[i].style)) :
                      HpScore(c, sk) > HpScore(c, call[c].scores[i].finisher_skill[1])

\* C10: every scored style whose best support skill's name is a key of the
\* skill-attack-buff map has the role "buffer".
C10_ForcedBuffer ==
    \A c \in CallIds :
        HasScored(c) =>
            \A i \in 1..Len(call[c].scores) :
                /\ call[c].scores[i].support_skill # None
                /\ call[c].scores[i].support_skill[1].skill_name
                       \in DOMAIN advisor.skill_attack_buff_map
                => call[c].scores[i].role = "buffer"

\* such a style is a buffer although its attack score is above its support
\* score and its best debuff skill has the note of a debuffer
C10_Witness ==
    \E c \in CallIds :
        /\ HasScored(c)
        /\ \E i \in 1..Len(call[c].scores) :
               /\ call[c].scores[i].support_skill # None
               /\ call[c].scores[i].support_skill[1].skill_name
                      \in DOMAIN advisor.skill_attack_buff_map
               /\ call[c].scores[i].debuff_skill # None
               /\ TextHas(call[c].scores[i].debuff_skill[1].notes, "VULNERABLE")
               /\ call[c].scores[i].attack_score > call[c].scores[i].support_score
               /\ call[c].scores[i].role = "buffer"

----------------------------------------------------------------------------
(* Properties of the calls on the advisors over other data.                *)

\* the selection and the main attacker of recommend, for an advisor
SelectionBy(self, args) ==
    LET owned == resolve_style_queries(self, args.owned_queries)
        wanted == resolve_style_queries(self, args.wanted_queries)
    IN  SelectionOf(
            PoolScores(self, CandidatePool(self, owned.uniq, wanted.uniq), wanted.uniq,
                       find_enemy(self, args.enemy_name),
                       args.preferred_weapon, args.preferred_element),
            wanted.uniq, args.team_size)

\* total_support_layers before the clamp
UnclampedSupportLayers(self, selected) ==
    SeqSum([i \in 1..Len(selected) |-> MemberSupportLayers(self, selected[i])])

\* the styles selected and the support skill of each, in order
SupportSkillsOf(selected) ==
    [i \in 1..Len(selected) |->
        <<selected[i].style.style_name, selected[i].support_skill>>]

\* the advisor with the smaller value u differs from this one in the field
\* buff of k2 only (the knowledge row and the map value built from it), and
\* total_support_layers is below the clamp for both
SmallerBuff(self, u, args, selected) ==
    /\ self.field_buff_map # EmptyMap
    /\ u < self.field_buff_map[<<"k","2">>]
    /\ [self EXCEPT !.field_buff_map = BuffAdvisor(u).field_buff_map,
                    !.knowledge = BuffAdvisor(u).knowledge] = BuffAdvisor(u)
    /\ UnclampedSupportLayers(self, selected) < 2200
    /\ UnclampedSupportLayers(BuffAdvisor(u),
                              SelectionBy(BuffAdvisor(u), args).sel.selected) < 2200

\* C11, amended: for two advisors that differ only in one larger value of a
\* buff map that feeds total_support_layers, with total_support_layers below
\* the 2.2 clamp in both and the same members selected with the same support
\* skills in both, recommend() with the same arguments returns an
\* estimated_damage that is not smaller for the advisor with the larger value.
C11_Monotone ==
    \A c \in CallIds : \A u \in BuffValues :
        /\ HasReturned(c)
        /\ SmallerBuff(advisor, u, call[c].args, call[c].sel.selected)
        /\ SupportSkillsOf(SelectionBy(BuffAdvisor(u), call[c].args).sel.selected)
               = SupportSkillsOf(call[c].sel.selected)
        => recommend(BuffAdvisor(u), call[c].args).estimated_damage
               <= call[c].plan[1].estimated_damage

\* C11 as stated: for two advisors that differ only in one larger value of a
\* buff map, with total_support_layers below the clamp in both, the
\* estimated_damage is not smaller for the advisor with the larger value.
C11_AsStated ==
    \A c \in CallIds : \A u \in BuffValues :
        /\ HasReturned(c)
        /\ SmallerBuff(advisor, u, call[c].args, call[c].sel.selected)
        => recommend(BuffAdvisor(u), call[c].args).estimated_damage
               <= call[c].plan[1].estimated_damage

\* a call returned a larger estimate than it does for a smaller value of the
\* buff, with the same members and support skills, one of them the buffed one
C11_Witness ==
    \E c \in CallIds : \E u \in BuffValues :
        /\ HasReturned(c)
        /\ SmallerBuff(advisor, u, call[c].args, call[c].sel.selected)
        /\ SupportSkillsOf(SelectionBy(BuffAdvisor(u), call[c].args).sel.selected)
               = SupportSkillsOf(call[c].sel.selected)
        /\ \E i \in 1..Len(call[c].sel.selected) :
               /\ call[c].sel.selected[i].support_skill # None
               /\ call[c].sel.selected[i].support_skill[1].skill_name = <<"k","2">>
        /\ recommend(BuffAdvisor(u), call[c].args).estimated_damage
               < call[c].plan[1].estimated_damage

\* the call ran on the plain advisor with a pool of one style and the enemy
\* without dp: the style's one skill has multiplier 2.0, the enemy's weakness
\* multipliers are 1.0 and no knowledge map has an entry
PlainFixture(c) ==
    /\ HasReturned(c)
    /\ advisor = PlainAdvisor
    /\ Len(call[c].pool) = 1
    /\ call[c].enemy # None
    /\ call[c].enemy[1].dp = 0

\* 1,000,000 x 2.0 x (1 + attack_bonus) x crit_factor for a team of one style,
\* crit_factor being 1.5 + min(1.2, crit_damage_bonus + crit_damage_bonus x 0.25)
ClosedForm(style) ==
    Scale(Scale(Scale(1000000, 2000), 1000 + attack_bonus(style)),
          1500 + Min2(1200, crit_damage_bonus(style)
                            + Mul(crit_damage_bonus(style), 250)))

\* total_support_layers = total_debuff_layers = 0, break_phase_factor = 1.0
\* and estimated_damage is the closed form
YieldsClosedForm(c) ==
    /\ call[c].main_attacker # None
    /\ LET f == DamageFactors(advisor, call[c].main_attacker[1],
                              call[c].sel.selected, call[c].enemy)
       IN  /\ f.total_support_layers = 0
           /\ f.total_debuff_layers = 0
           /\ f.break_phase_factor = 1000
    /\ call[c].plan[1].estimated_damage = ClosedForm(call[c].pool[1])

\* the style is classified attacker with support_score and debuff_score
\* below 2.0, and the call prefers no weapon or element that the skill has
PlainAttacker(c) ==
    /\ call[c].scores[1].role = "attacker"
    /\ call[c].scores[1].support_score < 2000
    /\ call[c].scores[1].debuff_score < 2000
    /\ call[c].scores[1].weakness_factor = 1000

\* C12, amended: for a pool of one style whose skill has multiplier 2.0, with
\* weakness multipliers 1.0 and no preferred weapon or element of the skill,
\* no knowledge-map entries and an enemy with dp = 0, recommend() yields
\* total_support_layers = total_debuff_layers = 0, break_phase_factor = 1.0
\* and estimated_damage = 1,000,000 x 2.0 x (1 + attack_bonus) x crit_factor,
\* for every value of the style's stat bonuses with which the style is
\* classified attacker and its support_score and debuff_score are below 2.0.
C12_ClosedForm ==
    \A c \in CallIds : PlainFixture(c) /\ PlainAttacker(c) => YieldsClosedForm(c)

\* C12 as stated: the fixture yields the closed form for every value of the
\* style's attack_bonus and other stat bonuses.
C12_AsStated ==
    \A c \in CallIds : PlainFixture(c) => YieldsClosedForm(c)

\* the fixture returned the closed form for a style with an attack bonus and
\* a crit damage bonus
C12_Witness ==
    \E c \in CallIds :
        /\ PlainFixture(c) /\ PlainAttacker(c)
        /\ attack_bonus(call[c].pool[1]) > 0
        /\ crit_damage_bonus(call[c].pool[1]) > 0
        /\ call[c].plan[1].estimated_damage = 3900000

\* C13: a returned TeamPlan without a main attacker has estimated_damage = 0
\* and relative_score = 0, and its call had an empty candidate pool; a
\* TeamPlan with a main attacker has relative_score = estimated_damage /
\* 1,000,000 (relative_score in thousandths, estimated_damage in units).
C13_NoMainNoDamage ==
    \A c \in CallIds :
        HasReturned(c) =>
            /\ call[c].plan[1].main_attacker = None =>
                   /\ call[c].plan[1].estimated_damage = 0
                   /\ call[c].plan[1].relative_score = 0
                   /\ call[c].pool = << >>
            /\ call[c].plan[1].main_attacker # None =>
                   call[c].plan[1].relative_score * 1000
                       = call[c].plan[1].estimated_damage
                         - (call[c].plan[1].estimated_damage % 1000)

\* a plan without a main attacker was returned, for an empty roster
C13_Witness ==
    \E c \in CallIds :
        /\ HasReturned(c)
        /\ call[c].plan[1].main_attacker = None
        /\ call[c].args.team_size >= 1
        /\ advisor.styles = << >>

----------------------------------------------------------------------------
(* Properties of the selection passes and of the returned team.            *)

\* the selected members other than the main attacker, in the order in which
\* the passes added them
OthersInOrder(c) ==
    SelectSeq(call[c].sel.selected,
        LAMBDA x : x.style.style_name # call[c].main_attacker[1].style.style_name)

\* the main attacker is team[0] and the other members follow in the order
\* of the selection
MainFirst(c) ==
    /\ call[c].plan[1].team # << >>
    /\ call[c].plan[1].team[1] = call[c].plan[1].main_attacker[1]
    /\ \E i \in 1..Len(call[c].sel.selected) :
           call[c].sel.selected[i] = call[c].plan[1].main_attacker[1]
    /\ Len(Tail(call[c].plan[1].team)) <= Len(OthersInOrder(c))
    /\ Tail(call[c].plan[1].team)
           = SubSeq(OthersInOrder(c), 1, Len(call[c].plan[1].team) - 1)

\* a step of a call only appends to its selection
OnlyAppends(c) ==
    /\ Len(call[c].sel.selected) <= Len(call'[c].sel.selected)
    /\ SubSeq(call'[c].sel.selected, 1, Len(call[c].sel.selected))
           = call[c].sel.selected

\* C14: in every returned TeamPlan with a main attacker and team_size >= 1,
\* the main attacker is team[0] and the other members of the team follow in
\* the order in which the selection passes added them; a pass adds a member
\* at the end of the selection and never moves one.
C14_MainFirst ==
    /\ [](\A c \in CallIds :
             /\ HasReturned(c)
             /\ call[c].plan[1].main_attacker # None
             /\ call[c].args.team_size >= 1
             => MainFirst(c))
    /\ [][\A c \in CallIds : OnlyAppends(c)]_vars

\* a team of three was returned whose main attacker was added after a
\* wanted style
C14_Witness ==
    \E c \in CallIds :
        /\ HasReturned(c)
        /\ Len(call[c].plan[1].team) = 3
        /\ call[c].plan[1].main_attacker # None
        /\ call[c].sel.selected[1] # call[c].plan[1].main_attacker[1]
        /\ call[c].plan[1].team[1] = call[c].plan[1].main_attacker[1]

\* the step of call c is the pass from position pc to position next
PassStep(c, pc, next) == call[c].pc = pc /\ call'[c].pc = next

\* the members the step of call c added, by their places in the selection
AddedPlaces(c) == (Len(call[c].sel.selected) + 1)..Len(call'[c].sel.selected)

\* the selection as it was after the add at place k of the step
AfterAdd(c, k) == SubSeq(call'[c].sel.selected, 1, k)

\* the pass added nothing to a full team, and nothing after an add that left
\* a member with the role among the selected
StopsAtRoleOrFull(c, role) ==
    /\ \A k \in AddedPlaces(c) : k <= call[c].args.team_size
    /\ \A k \in AddedPlaces(c) :
           k < Len(call'[c].sel.selected) => ~HasRole(AfterAdd(c, k), role)

\* the pass added nothing if a member with the role was selected or the team
\* was full when it started
AddsNothingAtRoleOrFull(c, role) ==
    \/ HasRole(call[c].sel.selected, role)
    \/ Len(call[c].sel.selected) >= call[c].args.team_size
    => call'[c].sel = call[c].sel

\* C15, amended: the debuffer pass adds no candidate while the selection
\* already has team_size members, and none after an add that leaves a member
\* with role "debuffer" among the selected; the role is looked at only after
\* an add, so a pass that starts with such a member selected still adds at
\* most one candidate.  The buffer pass is the same with role "buffer".
C15_PassStops ==
    [][\A c \in CallIds :
          /\ PassStep(c, "main", "debuff") => StopsAtRoleOrFull(c, "debuffer")
          /\ PassStep(c, "debuff", "buffer") => StopsAtRoleOrFull(c, "buffer")]_vars

\* C15 as stated: the debuffer pass adds no candidate while some selected
\* member has role "debuffer" or the team is full, also when that is the
\* case as the pass starts; the buffer pass the same with role "buffer".
C15_AsStated ==
    [][\A c \in CallIds :
          /\ PassStep(c, "main", "debuff") =>
                 /\ StopsAtRoleOrFull(c, "debuffer")
                 /\ AddsNothingAtRoleOrFull(c, "debuffer")
          /\ PassStep(c, "debuff", "buffer") =>
                 /\ StopsAtRoleOrFull(c, "buffer")
                 /\ AddsNothingAtRoleOrFull(c, "buffer")]_vars

\* the debuffer pass is over: it added one member with role "debuffer" to a
\* selection that had none, and the team is not full
C15_Witness ==
    \E c \in CallIds :
        /\ call[c].pc = "debuff"
        /\ Len(call[c].sel.selected) >= 2
        /\ Len(call[c].sel.selected) < call[c].args.team_size
        /\ call[c].sel.selected[Len(call[c].sel.selected)].role = "debuffer"
        /\ ~HasRole(SubSeq(call[c].sel.selected, 1, Len(call[c].sel.selected) - 1),
                    "debuffer")

\* the score a pass looks at: debuff_score in the debuffer pass,
\* support_score in the buffer pass
PassScore(sc, role) == IF role = "debuffer" THEN sc.debuff_score ELSE sc.support_score

\* every member the pass added has a score above 0.4; every one but the last
\* has another role than the pass's; and the pass went on until a member
\* with its role was selected, the team was full or no candidate with a
\* score above 0.4 was left to add
AddsUntilRole(c, role) ==
    /\ \A k \in AddedPlaces(c) :
           /\ PassScore(call'[c].sel.selected[k], role) > 400
           /\ k < Len(call'[c].sel.selected) => call'[c].sel.selected[k].role # role
    /\ \/ HasRole(call'[c].sel.selected, role)
       \/ Len(call'[c].sel.selected) >= call[c].args.team_size
       \/ \A i \in 1..Len(call[c].scores) :
              PassScore(call[c].scores[i], role) > 400 =>
                  call[c].scores[i].style.character \in call'[c].sel.used_chars

\* C16: the debuffer pass and the buffer pass add candidates whose score
\* exceeds 0.4 one after another, all but the last of another role than the
\* pass's, until a member with the pass's role is selected, the score drops
\* to <= 0.4, the candidates run out or the team is full; they add no
\* candidate with a score <= 0.4.  (That one pass can add more than one
\* member is the witness.)
C16_AddsUntilRole ==
    [][\A c \in CallIds :
          /\ PassStep(c, "main", "debuff") => AddsUntilRole(c, "debuffer")
          /\ PassStep(c, "debuff", "buffer") => AddsUntilRole(c, "buffer")]_vars

\* the debuffer pass is over and added two members, the first of them with
\* another role than "debuffer"
C16_Witness ==
    \E c \in CallIds :
        /\ call[c].pc = "debuff"
        /\ call[c].args.wanted_queries = << >>
        /\ Len(call[c].sel.selected) = 3
        /\ call[c].sel.selected[2].role # "debuffer"
        /\ call[c].sel.selected[2].debuff_score > 400
        /\ call[c].sel.selected[3].debuff_score > 400

\* max(x.support_score, x.debuff_score), the key of the layer pass
LayerKey(sc) == IF sc.support_score >= sc.debuff_score THEN sc.support_score
                ELSE sc.debuff_score

\* the members the pass added are in descending order of the key, none was
\* added to a full team, and none after an add that left two members with
\* support_score >= 2.0 and two with debuff_score >= 2.0
StopsAtTwoLayersOrFull(c) ==
    /\ \A j, k \in AddedPlaces(c) :
           j < k => LayerKey(call'[c].sel.selected[j]) >= LayerKey(call'[c].sel.selected[k])
    /\ \A k \in AddedPlaces(c) : k <= call[c].args.team_size
    /\ \A k \in AddedPlaces(c) :
           k < Len(call'[c].sel.selected) => ~TwoLayers(AfterAdd(c, k))

\* the pass added nothing if the two layers were there or the team was full
\* when it started
AddsNothingAtTwoLayersOrFull(c) ==
    \/ TwoLayers(call[c].sel.selected)
    \/ Len(call[c].sel.selected) >= call[c].args.team_size
    => call'[c].sel = call[c].sel

\* C17, amended: the secondary layer pass adds candidates in descending
\* max(support_score, debuff_score) order, none while the selection already
\* has team_size members, and none after an add that leaves at least two
\* selected members with support_score >= 2.0 and at least two with
\* debuff_score >= 2.0; the layers are counted only after an add, so a pass
\* that starts with them in place still adds at most one candidate.
C17_LayerStops ==
    [][\A c \in CallIds :
          PassStep(c, "buffer", "layer") => StopsAtTwoLayersOrFull(c)]_vars

\* C17 as stated: the pass adds nothing once the two layers are there, also
\* if they are there when the pass starts.
C17_AsStated ==
    [][\A c \in CallIds :
          PassStep(c, "buffer", "layer") =>
              /\ StopsAtTwoLayersOrFull(c)
              /\ AddsNothingAtTwoLayersOrFull(c)]_vars

\* the layer pass is over and the two layers are in place, with the team
\* not full and a candidate of an unused character left
C17_Witness ==
    \E c \in CallIds :
        /\ call[c].pc = "layer"
        /\ Len(call[c].sel.selected) < call[c].args.team_size
        /\ TwoLayers(call[c].sel.selected)
        /\ \E i \in 1..Len(call[c].scores) :
               call[c].scores[i].style.character \notin call[c].sel.used_chars

\* the distinct characters among the pool's styles
PoolCharacters(c) == { call[c].pool[i].character : i \in 1..Len(call[c].pool) }

\* C18: after the fill pass the team is as large as the constraints allow:
\* for team_size >= 0, len(team) = min(team_size, number of distinct
\* characters among the pool's styles).
C18_FullTeam ==
    \A c \in CallIds :
        HasReturned(c) /\ call[c].args.team_size >= 0 =>
            Len(call[c].plan[1].team) =
                Min2(call[c].args.team_size, Cardinality(PoolCharacters(c)))

\* a team of five of a pool of five characters: the layer pass stopped at
\* four members and the fill added the fifth
C18_Witness ==
    \E c \in CallIds :
        /\ HasReturned(c)
        /\ call[c].args.team_size = 5
        /\ Cardinality(PoolCharacters(c)) = 5
        /\ Len(call[c].plan[1].team) = 5
        /\ TwoLayers(SubSeq(call[c].sel.selected, 1, 3))

\* the selection of call c right after the force-add: the matched wanted
\* styles in query order, but for those whose character an earlier one has
ForceAddedInOrder(c) ==
    LET wanted == call[c].matched_wanted
        selected == call[c].sel.selected
    IN  /\ \A i \in 1..Len(wanted) :
               (\E k \in 1..Len(selected) : selected[k].style = wanted[i])
               <=> (\A j \in 1..(i - 1) : wanted[j].character # wanted[i].character)
        /\ \A k \in 1..Len(selected) :
               \E i \in 1..Len(wanted) : selected[k].style = wanted[i]
        /\ \A k, l \in 1..Len(selected) : \A i, j \in 1..Len(wanted) :
               k < l /\ selected[k].style = wanted[i] /\ selected[l].style = wanted[j]
               => i < j

WantedCharactersDistinct(c) ==
    \A i, j \in 1..Len(call[c].matched_wanted) :
        i # j => call[c].matched_wanted[i].character # call[c].matched_wanted[j].character

AllWantedInTeam(c) ==
    \A i \in 1..Len(call[c].matched_wanted) :
        \E k \in 1..Len(call[c].plan[1].team) :
            call[c].plan[1].team[k].style = call[c].matched_wanted[i]

\* every character of the pool is the character of a matched wanted style
NoOtherCharacter(c) ==
    \A i \in 1..Len(call[c].pool) :
        \E j \in 1..Len(call[c].matched_wanted) :
            call[c].pool[i].character = call[c].matched_wanted[j].character

\* C19, amended: wanted styles are force-added in query order before any
\* other pass, and if the matched wanted styles have pairwise distinct
\* characters and number less than team_size, or number exactly team_size
\* while the pool has no style of another character, every one of them is a
\* member of the returned team.
C19_WantedInTeam ==
    \A c \in CallIds :
        /\ call[c].pc = "forced" => ForceAddedInOrder(c)
        /\ /\ HasReturned(c)
           /\ WantedCharactersDistinct(c)
           /\ \/ Len(call[c].matched_wanted) < call[c].args.team_size
              \/ /\ Len(call[c].matched_wanted) = call[c].args.team_size
                 /\ NoOtherCharacter(c)
           => AllWantedInTeam(c)

\* C19 as stated: ... and if the matched wanted styles have pairwise distinct
\* characters and number at most team_size, every one of them is a member of
\* the returned team.
C19_AsStated ==
    \A c \in CallIds :
        /\ call[c].pc = "forced" => ForceAddedInOrder(c)
        /\ /\ HasReturned(c)
           /\ WantedCharactersDistinct(c)
           /\ Len(call[c].matched_wanted) <= call[c].args.team_size
           => AllWantedInTeam(c)

\* two wanted styles of different characters in a team of three whose main
\* attacker is neither of them
C19_Witness ==
    \E c \in CallIds :
        /\ HasReturned(c)
        /\ Len(call[c].matched_wanted) = 2
        /\ WantedCharactersDistinct(c)
        /\ call[c].args.team_size = 3
        /\ call[c].plan[1].team[1].style # call[c].matched_wanted[1]
        /\ call[c].plan[1].team[1].style # call[c].matched_wanted[2]
        /\ AllWantedInTeam(c)

\* C20 as stated: the main attacker of a TeamPlan has the highest
\* attack_score of the team: no member of the returned team has an
\* attack_score strictly greater than main_attacker.attack_score, also when
\* wanted styles were force-added before the main-attacker pass.
C20_AsStated ==
    \A c \in CallIds :
        HasReturned(c) /\ call[c].plan[1].main_attacker # None =>
            \A k \in 1..Len(call[c].plan[1].team) :
                call[c].plan[1].team[k].attack_score
                    <= call[c].plan[1].main_attacker[1].attack_score

\* the scores of call c as they are without the += 100.0 of the wanted styles
WithoutBonus(c) ==
    [i \in 1..Len(call[c].scores) |->
        IF call[c].scores[i].style.style_name \in WantedNames(call[c].matched_wanted)
        THEN [call[c].scores[i] EXCEPT !.total_score = @ - 100000]
        ELSE call[c].scores[i]]

StyleNames(members) == [i \in 1..Len(members) |-> members[i].style.style_name]

MainName(main_attacker) ==
    IF main_attacker = None THEN None ELSE Some(main_attacker[1].style.style_name)

\* the team and the main attacker, by name, that the selection makes of
\* the given scores for call c
OutcomeOf(c, scores) ==
    LET chosen == SelectionOf(scores, call[c].matched_wanted, call[c].args.team_size)
    IN  [ team |-> StyleNames(TeamOf(chosen.sel.selected, chosen.main_attacker,
                                     call[c].args.team_size)),
          main |-> MainName(chosen.main_attacker) ]

\* C21: the +100.0 added to the total_score of wanted styles never changes
\* the outcome of selection: the returned team (style names in order) and
\* the main attacker are those of the same selection run without the bonus,
\* because every wanted style is already selected or blocked by its
\* character when the fill pass runs.
C21_BonusChangesNothing ==
    \A c \in CallIds :
        /\ call[c].pc = "layer" =>
               \A i \in 1..Len(call[c].matched_wanted) :
                   call[c].matched_wanted[i].character \in call[c].sel.used_chars
        /\ HasReturned(c) =>
               /\ StyleNames(call[c].plan[1].team) = OutcomeOf(c, WithoutBonus(c)).team
               /\ MainName(call[c].plan[1].main_attacker) = OutcomeOf(c, WithoutBonus(c)).main

\* a returned team with a member that is not wanted, where the bonus changed
\* the order of the fill: without it the wanted style is not the first
C21_Witness ==
    \E c \in CallIds :
        /\ HasReturned(c)
        /\ Len(call[c].matched_wanted) = 1
        /\ Len(call[c].plan[1].team) >= 2
        /\ TheSorted(call[c].scores, "total_score")[1].style = call[c].matched_wanted[1]
        /\ TheSorted(WithoutBonus(c), "total_score")[1].style # call[c].matched_wanted[1]

\* C22 as stated: the estimated_damage of a TeamPlan is computed from
\* exactly the members of the returned team: it is the estimate that the
\* main attacker and the styles of TeamPlan.team give, and no style absent
\* from the team adds to it.
C22_AsStated ==
    \A c \in CallIds :
        HasReturned(c) =>
            call[c].plan[1].estimated_damage =
                EstimateDamage(advisor, call[c].plan[1].main_attacker,
                               call[c].plan[1].team, call[c].plan[1].enemy).estimated_damage

\* C23 as stated: every style named in an action of the turn plan (the
\* Turn 1 debuffer/buffer actions and the main attacker's Turn 2/Turn 3
\* actions) is a member of the returned TeamPlan.team.
C23_AsStated ==
    \A c \in CallIds :
        HasReturned(c) =>
            \A t \in 1..3 :
                \A a \in 1..Len(call[c].plan[1].turn_plan[t]) :
                    call[c].plan[1].turn_plan[t][a].say
                        \in {"use", "break", "max_skill", "finish_hp", "finish"}
                    => \E k \in 1..Len(call[c].plan[1].team) :
                           call[c].plan[1].team[k].style.style_name
                               = call[c].plan[1].turn_plan[t][a].style_name

\* the selected member of call c with the given style name
MemberNamed(c, style_name) ==
    CHOOSE x \in Range(call[c].sel.selected) : x.style.style_name = style_name

\* action a of Turn 1 is "{style} -> {debuff_skill}" of a selected member
IsDebuffAction(c, a) ==
    /\ a.say = "use"
    /\ \E x \in Range(call[c].sel.selected) :
           /\ x.style.style_name = a.style_name
           /\ x.debuff_skill # None
           /\ x.debuff_skill[1].skill_name = a.name

\* action a of Turn 1 is "{style} -> {support_skill}" of a selected member
IsBuffAction(c, a) ==
    /\ a.say = "use"
    /\ \E x \in Range(call[c].sel.selected) :
           /\ x.style.style_name = a.style_name
           /\ x.support_skill # None
           /\ x.support_skill[1].skill_name = a.name

\* Turn 1 of call c: at most two debuffer actions, then at most two buffer
\* actions, none of the main attacker, no style twice; the filler alone
\* exactly when no member but the main attacker has a debuff or support skill
TurnOneAsSpecified(c, t1) ==
    /\ \/ t1 = << Action("prepare", << >>, << >>) >>
       \/ \E d \in 0..2 : \E b \in 0..2 :
              /\ d + b >= 1
              /\ Len(t1) = d + b
              /\ \A i \in 1..d : IsDebuffAction(c, t1[i])
              /\ \A i \in (d + 1)..(d + b) : IsBuffAction(c, t1[i])
    /\ \A i \in 1..Len(t1) :
           call[c].plan[1].main_attacker # None =>
               t1[i].style_name # call[c].plan[1].main_attacker[1].style.style_name
    /\ \A i, j \in 1..Len(t1) : i # j => t1[i].style_name # t1[j].style_name
    /\ t1 = << Action("prepare", << >>, << >>) >>
       <=> ~ \E x \in Range(call[c].sel.selected) :
                 /\ Some(x) # call[c].plan[1].main_attacker
                 /\ x.debuff_skill # None \/ x.support_skill # None

\* C24: the turn plan always has exactly three lines, Turn 1, Turn 2 and
\* Turn 3, none of them empty; Turn 1 lists at most two debuffer actions
\* followed by at most two buffer actions, never names the main attacker,
\* never names the same style twice, and contains the generic filler exactly
\* when no such action exists.
C24_TurnPlanShape ==
    \A c \in CallIds :
        HasReturned(c) =>
            /\ Len(call[c].plan[1].turn_plan) = 3
            /\ \A t \in 1..3 : call[c].plan[1].turn_plan[t] # << >>
            /\ TurnOneAsSpecified(c, call[c].plan[1].turn_plan[1])

\* a Turn 1 of two debuffer actions, where a member that has a support skill
\* too is not listed a second time as a buffer
C24_Witness ==
    \E c \in CallIds :
        /\ HasReturned(c)
        /\ Len(call[c].plan[1].turn_plan[1]) = 2
        /\ IsDebuffAction(c, call[c].plan[1].turn_plan[1][1])
        /\ IsDebuffAction(c, call[c].plan[1].turn_plan[1][2])
        /\ \E i \in 1..2 :
               MemberNamed(c, call[c].plan[1].turn_plan[1][i].style_name).support_skill # None

\* the skills of the style of score sc of call c, and what
\* _attack_skill_score gives for the k-th of them
SkillsScored(c, sc) == skills_for_style(advisor, sc.style)
AttackOf(c, sk) ==
    attack_skill_score(advisor, sk, call[c].enemy,
                       call[c].args.preferred_weapon, call[c].args.preferred_element)

\* k is the place of the best overall-attack skill among skills: the first
\* with the strictly highest overall score
IsBestOverall(c, skills, k) ==
    /\ AttackOf(c, skills[k]).overall > 0
    /\ \A j \in 1..Len(skills) :
           /\ AttackOf(c, skills[j]).overall <= AttackOf(c, skills[k]).overall
           /\ j < k => AttackOf(c, skills[j]).overall < AttackOf(c, skills[k]).overall

\* weakness_factor of sc is the weakness factor of the best overall-attack
\* skill of its style, or 1.0 when the style has none
WeaknessOfBestOverall(c, sc) ==
    \/ /\ sc.weakness_factor = 1000
       /\ \A k \in 1..Len(SkillsScored(c, sc)) : ~IsBestOverall(c, SkillsScored(c, sc), k)
    \/ \E k \in 1..Len(SkillsScored(c, sc)) :
           /\ IsBestOverall(c, SkillsScored(c, sc), k)
           /\ sc.weakness_factor = AttackOf(c, SkillsScored(c, sc)[k]).weakness

\* weakness_factor of sc is the weakness factor of its finisher skill
WeaknessOfFinisher(c, sc) ==
    sc.weakness_factor = AttackOf(c, sc.finisher_skill[1]).weakness

\* C25, amended: in every StyleScore that has a finisher skill,
\* weakness_factor is the weakness factor, for the given enemy and
\* preferences, of the style's best overall-attack skill; that skill is the
\* finisher when the enemy has no dp > 0, so that there the estimate
\* multiplies the finisher's multiplier by the finisher's own weakness.
C25_WeaknessOfBestOverall ==
    \A c \in CallIds :
        call[c].pc = "scored" =>
            \A i \in 1..Len(call[c].scores) :
                call[c].scores[i].finisher_skill # None =>
                    /\ WeaknessOfBestOverall(c, call[c].scores[i])
                    /\ ~HasDp(call[c].enemy) => WeaknessOfFinisher(c, call[c].scores[i])

\* C25 as stated: in every StyleScore that has a finisher skill,
\* weakness_factor is the weakness factor of that finisher skill, also for
\* an enemy with dp > 0.
C25_AsStated ==
    \A c \in CallIds :
        call[c].pc = "scored" =>
            \A i \in 1..Len(call[c].scores) :
                call[c].scores[i].finisher_skill # None =>
                    WeaknessOfFinisher(c, call[c].scores[i])

\* a StyleScore against an enemy with dp > 0 whose finisher and breaker are
\* different skills, with a weakness factor other than 1.0
C25_Witness ==
    \E c \in CallIds :
        /\ call[c].pc = "scored"
        /\ HasDp(call[c].enemy)
        /\ \E i \in 1..Len(call[c].scores) :
               /\ call[c].scores[i].finisher_skill # None
               /\ call[c].scores[i].breaker_skill # call[c].scores[i].finisher_skill
               /\ call[c].scores[i].weakness_factor # 1000

\* rule 1: the best support skill of sc is named in one of the six buff maps
BuffRule(sc) ==
    /\ sc.support_skill # None
    /\ \E m \in { advisor.skill_attack_buff_map, advisor.element_attack_buff_map,
                  advisor.charge_buff_map, advisor.field_buff_map,
                  advisor.crit_damage_buff_map, advisor.crit_rate_buff_map } :
           sc.support_skill[1].skill_name \in DOMAIN m

\* rule 2: the best debuff skill of sc is in the debuff-trait map or has a
\* defense-down or vulnerability note
DebuffRule(sc) ==
    /\ sc.debuff_skill # None
    /\ \/ sc.debuff_skill[1].skill_name \in DOMAIN advisor.debuff_trait_map
       \/ TextHas(sc.debuff_skill[1].notes, "DEF_DOWN")
       \/ TextHas(sc.debuff_skill[1].notes, "VULNERABLE")

\* max(1.6, 0.12 x attack_score)
CutoffOf(sc) ==
    IF Mul(sc.attack_score, 120) > 1600 THEN Mul(sc.attack_score, 120) ELSE 1600

\* C26: the role is always one of attacker, buffer, debuffer; rule 1 gives
\* buffer and overrides rule 2, which gives debuffer; when neither applies,
\* with cutoff = max(1.6, 0.12 x attack_score), role = debuffer iff
\* debuff_score >= cutoff and debuff_score >= support_score, else buffer iff
\* support_score >= cutoff, else attacker.
C26_RoleChain ==
    \A c \in CallIds :
        call[c].pc = "scored" =>
            \A i \in 1..Len(call[c].scores) :
                LET sc == call[c].scores[i]
                    by_debuff == /\ sc.debuff_score >= CutoffOf(sc)
                                 /\ sc.debuff_score >= sc.support_score
                IN  /\ sc.role \in {"attacker", "buffer", "debuffer"}
                    /\ BuffRule(sc) => sc.role = "buffer"
                    /\ ~BuffRule(sc) /\ DebuffRule(sc) => sc.role = "debuffer"
                    /\ ~BuffRule(sc) /\ ~DebuffRule(sc) =>
                           /\ sc.role = "debuffer" <=> by_debuff
                           /\ sc.role = "buffer" <=>
                                  ~by_debuff /\ sc.support_score >= CutoffOf(sc)

\* a score to which neither rule applies and that is a debuffer by the cutoff
C26_Witness ==
    \E c \in CallIds :
        /\ call[c].pc = "scored"
        /\ \E i \in 1..Len(call[c].scores) :
               /\ ~BuffRule(call[c].scores[i]) /\ ~DebuffRule(call[c].scores[i])
               /\ call[c].scores[i].role = "debuffer"

\* the score of the given kind ("overall", "hp_score" or "dp_score") that
\* _attack_skill_score gives skill sk in call c
PhaseScore(c, sk, kind) == AttackOf(c, sk)[kind]

\* the greatest score of the kind among the skills, 0.0 if there is none
BestScore(c, skills, kind) ==
    SetMax({0} \cup { PhaseScore(c, skills[k], kind) : k \in 1..Len(skills) })

\* best is the first-seen skill with the strictly highest score of the kind,
\* or None when no skill has a positive score
IsFirstBest(c, skills, kind, best) ==
    IF BestScore(c, skills, kind) = 0 THEN best = None
    ELSE \E k \in 1..Len(skills) :
             /\ best = Some(skills[k])
             /\ PhaseScore(c, skills[k], kind) = BestScore(c, skills, kind)
             /\ \A j \in 1..(k - 1) :
                    PhaseScore(c, skills[j], kind) < BestScore(c, skills, kind)

\* attack_core x rarity x (1 + stat_boost)
AttackScoreOf(style, attack_core) ==
    Mul(Mul(attack_core, rarity_score(style.rarity)), 1000 + StatBoost(style))

\* the two-phase model for one score of call c
TwoPhase(c, sc, skills) ==
    IF HasDp(call[c].enemy)
    THEN /\ IsFirstBest(c, skills, "hp_score", sc.finisher_skill)
         /\ IsFirstBest(c, skills, "dp_score", sc.breaker_skill)
         /\ sc.attack_score =
                AttackScoreOf(sc.style,
                    IF BestScore(c, skills, "hp_score") > 0
                    THEN BestScore(c, skills, "hp_score")
                    ELSE BestScore(c, skills, "overall"))
    ELSE /\ IsFirstBest(c, skills, "overall", sc.finisher_skill)
         /\ sc.breaker_skill = sc.finisher_skill
         /\ sc.attack_score = AttackScoreOf(sc.style, BestScore(c, skills, "overall"))

\* C27: for an enemy with dp > 0 the finisher is the first-seen skill with
\* the strictly highest HP-phase score, the breaker the first-seen skill with
\* the strictly highest DP-phase score, and attack_core is the best HP score,
\* replaced by the best overall score only when the best HP score is not
\* positive; otherwise finisher = breaker = best overall-attack skill and
\* attack_core = best overall score.  In all cases attack_score =
\* attack_core x rarity x (1 + stat_boost).
C27_TwoPhase ==
    \A c \in CallIds :
        call[c].pc = "scored" =>
            \A i \in 1..Len(call[c].scores) :
                TwoPhase(c, call[c].scores[i], SkillsScored(c, call[c].scores[i]))

\* against an enemy with dp > 0, a style whose finisher and breaker differ
\* and whose best overall score is above its best HP score
C27_Witness ==
    \E c \in CallIds :
        /\ call[c].pc = "scored"
        /\ HasDp(call[c].enemy)
        /\ \E i \in 1..Len(call[c].scores) :
               /\ call[c].scores[i].finisher_skill # None
               /\ call[c].scores[i].breaker_skill # None
               /\ call[c].scores[i].breaker_skill # call[c].scores[i].finisher_skill
               /\ BestScore(c, SkillsScored(c, call[c].scores[i]), "overall")
                      > BestScore(c, SkillsScored(c, call[c].scores[i]), "hp_score")

\* style i of the roster contains the query in its name, character, alias
\* or raw name
Contains(i, q) ==
    \/ IsSubstring(q, advisor.styles[i].style_name)
    \/ IsSubstring(q, advisor.styles[i].character)
    \/ IsSubstring(q, advisor.styles[i].alias)
    \/ IsSubstring(q, advisor.styles[i].style_raw)

\* style i comes before style j among the substring candidates of q: its
\* name starts with the query and the other's does not; then the higher
\* rarity score; then the shorter name; then the earlier place in the roster
Beats(i, j, q) ==
    LET a == advisor.styles[i]
        b == advisor.styles[j]
        same_start == StartsWith(a.style_name, q) <=> StartsWith(b.style_name, q)
        same_rarity == rarity_score(a.rarity) = rarity_score(b.rarity)
    IN  \/ StartsWith(a.style_name, q) /\ ~StartsWith(b.style_name, q)
        \/ same_start /\ rarity_score(a.rarity) > rarity_score(b.rarity)
        \/ same_start /\ same_rarity /\ Len(a.style_name) < Len(b.style_name)
        \/ same_start /\ same_rarity /\ Len(a.style_name) = Len(b.style_name) /\ i < j

HasExact(q) == \E i \in 1..Len(advisor.styles) : advisor.styles[i].style_name = q
HasLower(q) ==
    \E i \in 1..Len(advisor.styles) : Lower(advisor.styles[i].style_name) = Lower(q)

\* the stripped query q is resolved, into the list matched, by the first of
\* the tiers exact, case-insensitive and substring that matches it
ResolvedByFirstTier(q, matched) ==
    IF HasExact(q)
    THEN \E m \in Range(matched) : m.style_name = q
    ELSE IF HasLower(q)
    THEN \E m \in Range(matched) : Lower(m.style_name) = Lower(q)
    ELSE (\E i \in 1..Len(advisor.styles) : Contains(i, q)) =>
             \E i \in 1..Len(advisor.styles) :
                 /\ Contains(i, q)
                 /\ \A j \in 1..Len(advisor.styles) :
                        j # i /\ Contains(j, q) => Beats(i, j, q)
                 /\ advisor.styles[i] \in Range(matched)

\* C28: each query is resolved by the first tier that matches, in the order
\* exact style_name, case-insensitive style_name, substring, fuzzy: a query
\* equal to a style_name resolves to that style even when other styles
\* contain it as a substring, and among substring candidates the winner is
\* chosen by (style_name starts with the query, then higher rarity score,
\* then shorter style_name), remaining ties going to the style earliest in
\* the style list.
C28_FirstTier ==
    \A c \in CallIds :
        call[c].pc = "resolved" =>
            /\ \A k \in 1..Len(call[c].args.owned_queries) :
                   Strip(call[c].args.owned_queries[k]) # << >> =>
                       ResolvedByFirstTier(Strip(call[c].args.owned_queries[k]),
                                           call[c].matched_owned)
            /\ \A k \in 1..Len(call[c].args.wanted_queries) :
                   Strip(call[c].args.wanted_queries[k]) # << >> =>
                       ResolvedByFirstTier(Strip(call[c].args.wanted_queries[k]),
                                           call[c].matched_wanted)

\* the queries "A" and "a" against a roster with a style named "A": the
\* first is that style's name and the second its name in lower case, both
\* are substrings of other styles of higher rarity, and the one style named
\* "A" is what they resolve to
C28_Witness ==
    \E c \in CallIds :
        /\ call[c].pc = "resolved"
        /\ call[c].args.owned_queries = << <<"A">>, <<"a">> >>
        /\ HasExact(<<"A">>)
        /\ \E i \in 1..Len(advisor.styles) :
               /\ Contains(i, <<"a">>)
               /\ rarity_score(advisor.styles[i].rarity) > rarity_score("A")
        /\ Len(call[c].matched_owned) = 1
        /\ call[c].matched_owned[1].style_name = <<"A">>

\* the numeric maps of the advisor: the field, its table and its value key
NumericMaps ==
    { <<"skill_attack_buff_map", "skill_attack_buffs", "max_value">>,
      <<"element_attack_buff_map", "element_attack_buffs", "max_value">>,
      <<"charge_buff_map", "charge_buffs", "max_value">>,
      <<"crit_damage_buff_map", "crit_damage_buffs", "value">>,
      <<"crit_rate_buff_map", "crit_rate_buffs", "max_value">>,
      <<"field_buff_map", "field_buffs", "value">>,
      <<"mind_eye_map", "mind_eye_buffs", "max_value">>,
      <<"penetration_map", "penetration_skills", "value">> }

\* the rows of the table of the advisor's knowledge, none when the table is
\* missing or not a list
RowsOf(table) ==
    IF table \in DOMAIN advisor.knowledge /\ advisor.knowledge[table].is_list
    THEN advisor.knowledge[table].rows
    ELSE << >>

\* the places of the well-formed rows with the trimmed skill_name
RowsNamed(rows, skill_name) ==
    { i \in 1..Len(rows) : rows[i].is_dict /\ Strip(rows[i].skill_name) = skill_name }

\* the value a row gives: raw/100 when the raw value is above 2.0, the raw
\* value otherwise, where a value that does not parse or is absent is 0.0
ValueOfRow(row, value_key) ==
    LET raw == IF row.key = value_key /\ row.value.parses THEN row.value.v ELSE 0
    IN  IF raw > 2000 THEN raw \div 100 ELSE raw

\* map m holds exactly the trimmed non-blank names of the well-formed rows,
\* each with the value of the last row of that name
MapOfTable(m, rows, value_key) ==
    /\ DOMAIN m = { Strip(rows[i].skill_name) :
                      i \in { j \in 1..Len(rows) : rows[j].is_dict } } \ { << >> }
    /\ \A n \in DOMAIN m :
           m[n] = ValueOfRow(rows[SetMax(RowsNamed(rows, n))], value_key)

\* a skill named in none of the maps gets nothing from them: its support
\* score is that of its notes, and so is its debuff score
AbsentGivesNothing(sk) ==
    /\ (\A f \in NumericMaps : sk.skill_name \notin DOMAIN advisor[f[1]]) =>
           support_skill_score(advisor, sk) =
               1000 * KeywordCount(SUPPORT_KEYWORDS, sk.notes)
               + (IF TextHas(sk.notes, "HEAL") THEN 400 ELSE 0)
    /\ sk.skill_name \notin DOMAIN advisor.debuff_trait_map =>
           debuff_skill_score(advisor, sk) =
               1000 * KeywordCount(DEBUFF_KEYWORDS, sk.notes)
               + (IF TextHas(sk.notes, "DEF_DOWN") THEN 1000 ELSE 0)
               + (IF TextHas(sk.notes, "VULNERABLE") THEN 1000 ELSE 0)

NonNegativeData ==
    /\ \A i \in 1..Len(advisor.styles) :
           /\ attack_bonus(advisor.styles[i]) >= 0
           /\ crit_damage_bonus(advisor.styles[i]) >= 0
           /\ crit_rate_bonus(advisor.styles[i]) >= 0
           /\ destruction_bonus(advisor.styles[i]) >= 0
    /\ \A f \in NumericMaps : \A n \in DOMAIN advisor[f[1]] : advisor[f[1]][n] >= 0

\* C30: the weakness factor of any skill is strictly positive (each enemy
\* weapon/element multiplier is floored at 0.05, also when it is zero or
\* negative), and whenever a main attacker exists and all style bonuses and
\* knowledge-map values are non-negative, estimated_damage
\* >= 1,000,000 x 0.5 x 0.1 x 1.5 = 75,000 > 0.
C30_NoCollapse ==
    \A c \in CallIds :
        /\ HasScored(c) =>
               /\ \A i \in 1..Len(advisor.skills) :
                      AttackOf(c, advisor.skills[i]).weakness > 0
               /\ \A i \in 1..Len(call[c].scores) : call[c].scores[i].weakness_factor > 0
        /\ HasReturned(c) /\ call[c].plan[1].main_attacker # None /\ NonNegativeData =>
               call[c].plan[1].estimated_damage >= 75000

\* a plan against an enemy whose multipliers for the main attacker's skills
\* are zero or negative: the weakness factor is positive and below the floor
\* of 0.1 of the estimate
C30_Witness ==
    \E c \in CallIds :
        /\ HasReturned(c)
        /\ NonNegativeData
        /\ call[c].plan[1].main_attacker # None
        /\ call[c].plan[1].enemy # None
        /\ \E w \in DOMAIN call[c].plan[1].enemy[1].weapon_mult :
               call[c].plan[1].enemy[1].weapon_mult[w] < 0
        /\ call[c].plan[1].main_attacker[1].finisher_skill # None
        /\ call[c].plan[1].main_attacker[1].weakness_factor < 100
        /\ call[c].plan[1].estimated_damage >= 75000

====
